---- MODULE Spec2Model ----
(***************************************************************************)
(* A model of the h3go cell-index library: the 64-bit cell index and its   *)
(* validity test, the parent / children hierarchy, Compact / Uncompact,    *)
(* and the GeoToH3 / H3ToGeo entry points.                                 *)
(*                                                                         *)
(* An H3Index is a 64-bit word made of disjoint bit fields                 *)
(* (src/h3index.go:25-82).  The model keeps the word as a record with one  *)
(* entry per field: high (bit 63), mode (bits 59-62), reserved (56-58),    *)
(* res (52-55), bc (45-51) and digits[1..15] (3 bits each, digit r at bit  *)
(* offset (15-r)*3).  Every setter of the modelled code is called with a   *)
(* value that fits its field, so a setter replaces exactly one entry.      *)
(***************************************************************************)
EXTENDS Integers, Sequences, FiniteSets, Bags, TLC

(***************************************************************************)
(* Program constants.                                                      *)
(***************************************************************************)
MAX_H3_RES == 15
NUM_BASE_CELLS == 122
NUM_DIGITS == 7
H3_HEXAGON_MODE == 1
H3_UNIEDGE_MODE == 2
CENTER_DIGIT == 0
K_AXES_DIGIT == 1
INVALID_DIGIT == 7
H3_DIGIT_MASK == 7

(* basecells.go is not part of the given sources: the face-ijk lookup table *)
(* is 3 x 3 x 3 per face, so the largest coordinate it accepts is 2.        *)
MAX_FACE_COORD == 2

(* The twelve pentagonal base cells (spec 4.5, 6: 12 pentagons, the polar   *)
(* ones are 4 and 117, base cell 14 is a pentagon).                         *)
PentagonBaseCells == {4, 14, 24, 38, 49, 58, 63, 72, 83, 97, 107, 117}

_isBaseCellPentagon(baseCell) == baseCell \in PentagonBaseCells

(***************************************************************************)
(* The bit codec.                                                          *)
(***************************************************************************)
H3_NULL ==
    [high |-> 0, mode |-> 0, reserved |-> 0, res |-> 0, bc |-> 0,
     digits |-> [r \in 1..MAX_H3_RES |-> 0]]

H3_INIT ==
    [high |-> 0, mode |-> 0, reserved |-> 0, res |-> 0, bc |-> 0,
     digits |-> [r \in 1..MAX_H3_RES |-> 7]]

H3_GET_HIGH_BIT(h3) == h3.high
H3_GET_MODE(h3) == h3.mode
H3_GET_RESERVED_BITS(h3) == h3.reserved
H3_GET_RESOLUTION(h3) == h3.res
H3_GET_BASE_CELL(h3) == h3.bc
H3_GET_INDEX_DIGIT(h3, res) == h3.digits[res]

H3_SET_MODE(h3, v) == [h3 EXCEPT !.mode = v]
H3_SET_RESOLUTION(h3, res) == [h3 EXCEPT !.res = res]
H3_SET_BASE_CELL(h3, bc) == [h3 EXCEPT !.bc = bc]
H3_SET_INDEX_DIGIT(h3, res, digit) == [h3 EXCEPT !.digits[res] = digit]

(***************************************************************************)
(* IsValid: the checks in the order the code makes them.  The loop over    *)
(* r = 1..res carries foundFirstNonZeroDigit.                              *)
(***************************************************************************)
(* IsValidDigits without the deleted-subsequence test of pentagons. *)
IsValidDigitsNoPentagonCheck(h3, r, foundFirstNonZeroDigit) ==
    \A q \in r..H3_GET_RESOLUTION(h3) :
        H3_GET_INDEX_DIGIT(h3, q) < NUM_DIGITS

RECURSIVE IsValidDigits(_, _, _)
IsValidDigits(h3, r, foundFirstNonZeroDigit) ==
    IF r > H3_GET_RESOLUTION(h3) THEN TRUE
    ELSE LET digit == H3_GET_INDEX_DIGIT(h3, r)
             first == ~foundFirstNonZeroDigit /\ digit # CENTER_DIGIT
         IN  IF first /\ _isBaseCellPentagon(H3_GET_BASE_CELL(h3))
                      /\ digit = K_AXES_DIGIT
             THEN FALSE
             ELSE IF digit < CENTER_DIGIT \/ digit >= NUM_DIGITS
             THEN FALSE
             ELSE IsValidDigits(h3, r + 1, foundFirstNonZeroDigit \/ first)

IsValidTail(h3) ==
    \A r \in (H3_GET_RESOLUTION(h3) + 1)..MAX_H3_RES :
        H3_GET_INDEX_DIGIT(h3, r) = INVALID_DIGIT

IsValid(h3) ==
    IF H3_GET_HIGH_BIT(h3) # 0 THEN FALSE
    ELSE IF H3_GET_MODE(h3) # H3_HEXAGON_MODE THEN FALSE
    ELSE IF H3_GET_RESERVED_BITS(h3) # 0 THEN FALSE
    ELSE IF H3_GET_BASE_CELL(h3) < 0 \/ H3_GET_BASE_CELL(h3) >= NUM_BASE_CELLS
    THEN FALSE
    ELSE IF H3_GET_RESOLUTION(h3) < 0 \/ H3_GET_RESOLUTION(h3) > MAX_H3_RES
    THEN FALSE
    ELSE IF ~IsValidDigits(h3, 1, FALSE) THEN FALSE
    ELSE IsValidTail(h3)

(***************************************************************************)
(* Pentagon detection.  _h3LeadingNonZeroDigit returns the first digit     *)
(* that is greater than 1 (the code compares with > 1), CENTER_DIGIT when  *)
(* there is none.                                                          *)
(***************************************************************************)
RECURSIVE LeadingFrom(_, _)
LeadingFrom(h, r) ==
    IF r > H3_GET_RESOLUTION(h) THEN CENTER_DIGIT
    ELSE IF H3_GET_INDEX_DIGIT(h, r) > 1 THEN H3_GET_INDEX_DIGIT(h, r)
    ELSE LeadingFrom(h, r + 1)

_h3LeadingNonZeroDigit(h) == LeadingFrom(h, 1)

H3IsPentagon(h) ==
    /\ _isBaseCellPentagon(H3_GET_BASE_CELL(h))
    /\ _h3LeadingNonZeroDigit(h) = CENTER_DIGIT

(***************************************************************************)
(* Hierarchy.                                                              *)
(***************************************************************************)
H3ToParent(h, parentRes) ==
    LET childRes == H3_GET_RESOLUTION(h) IN
    IF parentRes > childRes THEN H3_NULL
    ELSE IF parentRes = childRes THEN h
    ELSE IF parentRes < 0 \/ parentRes > MAX_H3_RES THEN H3_NULL
    ELSE [h EXCEPT !.res = parentRes,
                   !.digits = [i \in 1..MAX_H3_RES |->
                       IF i >= parentRes + 1 /\ i <= childRes
                       THEN H3_DIGIT_MASK ELSE h.digits[i]]]

_isValidChildRes(parentRes, childRes) ==
    ~(childRes < parentRes \/ childRes > MAX_H3_RES)

RECURSIVE _ipow(_, _)
_ipow(base, exp) == IF exp <= 0 THEN 1 ELSE base * _ipow(base, exp - 1)

MaxH3ToChildrenSize(h, childRes) ==
    LET parentRes == H3_GET_RESOLUTION(h) IN
    IF ~_isValidChildRes(parentRes, childRes) THEN 0
    ELSE _ipow(7, childRes - parentRes)

makeDirectChild(h, cellNumber) ==
    LET childRes == H3_GET_RESOLUTION(h) + 1 IN
    H3_SET_INDEX_DIGIT(H3_SET_RESOLUTION(h, childRes), childRes, cellNumber)

RECURSIVE H3ToChildren(_, _)
RECURSIVE ChildrenFromWithK(_, _, _)
(* The loop of H3ToChildren without the test that skips K on a pentagon. *)
ChildrenFromWithK(h, childRes, i) ==
    IF i >= 7 THEN << >>
    ELSE H3ToChildren(makeDirectChild(h, i), childRes)
             \o ChildrenFromWithK(h, childRes, i + 1)

RECURSIVE ChildrenFrom(_, _, _)
(* The loop  for i := CENTER_DIGIT; i < 7; i++  of H3ToChildren, from i on. *)
ChildrenFrom(h, childRes, i) ==
    IF i >= 7 THEN << >>
    ELSE IF H3IsPentagon(h) /\ i = K_AXES_DIGIT
    THEN ChildrenFrom(h, childRes, i + 1)
    ELSE H3ToChildren(makeDirectChild(h, i), childRes)
             \o ChildrenFrom(h, childRes, i + 1)

H3ToChildren(h, childRes) ==
    LET parentRes == H3_GET_RESOLUTION(h) IN
    IF ~_isValidChildRes(parentRes, childRes) THEN << >>
    ELSE IF parentRes = childRes THEN << h >>
    ELSE ChildrenFrom(h, childRes, CENTER_DIGIT)

ToChildren(h3, childRes) == H3ToChildren(h3, childRes)

(***************************************************************************)
(* Compact.  The caller's slice is a sequence.  The cells left to compact  *)
(* and the result are kept as bags: after the first round the remaining    *)
(* cells come out of a Go map, whose iteration order is unspecified, so    *)
(* only the multiset of the result and the cell that happens to be         *)
(* remaining[0] (it sets the round's resolution) can be told.  Compact is  *)
(* therefore the set of the outcomes the iteration orders can produce.     *)
(***************************************************************************)
Range(s) == {s[i] : i \in DOMAIN s}

SeqToBag(s) == [c \in Range(s) |-> Cardinality({i \in DOMAIN s : s[i] = c})]

RECURSIVE BagToSeq(_)
BagToSeq(b) ==
    IF BagToSet(b) = {} THEN << >>
    ELSE LET c == CHOOSE x \in BagToSet(b) : TRUE
         IN  [i \in 1..b[c] |-> c]
                 \o BagToSeq([x \in BagToSet(b) \ {c} |-> b[x]])

ErrNil == "nil"
ErrCompactDuplicate == "compact duplicated"
ErrUncompactResExceeded == "uncompact resolution exceeded"

(* CompactCount with a pentagon parent counted like a hexagon parent. *)
CompactCountFromOne(remaining, parentRes, parent) ==
    BagCardinality([c \in {x \in BagToSet(remaining) :
                               H3ToParent(x, parentRes) = parent}
                      |-> remaining[c]])

(* compactable[parent] once every cell of remaining has been counted: the  *)
(* first cell of a parent sets 2 for a pentagon parent and 1 otherwise,    *)
(* every further cell adds 1.                                              *)
CompactCount(remaining, parentRes, parent) ==
    BagCardinality([c \in {x \in BagToSet(remaining) :
                               H3ToParent(x, parentRes) = parent}
                      |-> remaining[c]])
        + (IF H3IsPentagon(parent) THEN 1 ELSE 0)

(* A duplicate is reported only once a parent has counted past 7. *)
CompactDuplicateSeen(count) == \E p \in DOMAIN count : count[p] > 7

RECURSIVE CompactLoop(_, _, _)
CompactLoop(first, remaining, result) ==
    IF BagCardinality(remaining) = 0
    THEN {[err |-> ErrNil, cells |-> result]}
    ELSE IF BagCardinality(remaining) < 6
    THEN {[err |-> ErrNil, cells |-> result (+) remaining]}
    ELSE LET parentRes == H3_GET_RESOLUTION(first) - 1
             parents == {H3ToParent(c, parentRes) : c \in BagToSet(remaining)}
             compactable == [p \in parents |->
                                CompactCount(remaining, parentRes, p)]
             uncompactable ==
                 [c \in {x \in BagToSet(remaining) :
                             compactable[H3ToParent(x, parentRes)] < 7}
                     |-> remaining[c]]
             next == {p \in parents : compactable[p] = 7}
         IN  IF CompactDuplicateSeen(compactable)
             THEN {[err |-> ErrCompactDuplicate, cells |-> EmptyBag]}
             ELSE IF next = {}
             THEN {[err |-> ErrNil, cells |-> result (+) uncompactable]}
             ELSE UNION {CompactLoop(f, SetToBag(next),
                                     result (+) uncompactable) : f \in next}

Compact(set) ==
    IF Len(set) = 0 THEN {[err |-> ErrNil, cells |-> EmptyBag]}
    ELSE IF H3_GET_RESOLUTION(set[1]) = 0
    THEN {[err |-> ErrNil, cells |-> SeqToBag(set)]}
    ELSE CompactLoop(set[1], SeqToBag(set), EmptyBag)

(***************************************************************************)
(* Uncompact.                                                              *)
(***************************************************************************)
RECURSIVE MaxUncompactCount(_, _, _)
(* maxNumHexagons accumulated over compactedSet[i..]. *)
MaxUncompactCount(compactedSet, targetRes, i) ==
    IF i > Len(compactedSet) THEN 0
    ELSE LET cell == compactedSet[i]
             here == IF cell = H3_NULL THEN 0
                     ELSE IF H3_GET_RESOLUTION(cell) = targetRes THEN 1
                     ELSE MaxH3ToChildrenSize(cell, targetRes)
         IN  here + MaxUncompactCount(compactedSet, targetRes, i + 1)

MaxUncompactSize(compactedSet, targetRes) ==
    IF \E i \in DOMAIN compactedSet :
           /\ compactedSet[i] # H3_NULL
           /\ ~_isValidChildRes(H3_GET_RESOLUTION(compactedSet[i]), targetRes)
    THEN [size |-> 0, err |-> ErrUncompactResExceeded]
    ELSE [size |-> MaxUncompactCount(compactedSet, targetRes, 1),
          err |-> ErrNil]

(* UncompactFrom without the  cell == 0  test that skips H3_NULL. *)
RECURSIVE UncompactFromKeepNull(_, _, _)
UncompactFromKeepNull(compactedSet, targetRes, i) ==
    IF i > Len(compactedSet) THEN << >>
    ELSE LET cell == compactedSet[i]
             here == IF H3_GET_RESOLUTION(cell) = targetRes THEN << cell >>
                     ELSE ToChildren(cell, targetRes)
         IN  here \o UncompactFromKeepNull(compactedSet, targetRes, i + 1)

RECURSIVE UncompactFrom(_, _, _)
(* The loop of Uncompact over compactedSet[i..]. *)
UncompactFrom(compactedSet, targetRes, i) ==
    IF i > Len(compactedSet) THEN << >>
    ELSE LET cell == compactedSet[i]
             here == IF cell = H3_NULL THEN << >>
                     ELSE IF H3_GET_RESOLUTION(cell) = targetRes THEN << cell >>
                     ELSE ToChildren(cell, targetRes)
         IN  here \o UncompactFrom(compactedSet, targetRes, i + 1)

Uncompact(compactedSet, targetRes) ==
    IF MaxUncompactSize(compactedSet, targetRes).err # ErrNil
    THEN [err |-> MaxUncompactSize(compactedSet, targetRes).err,
          cells |-> << >>]
    ELSE [err |-> ErrNil, cells |-> UncompactFrom(compactedSet, targetRes, 1)]

(***************************************************************************)
(* ijk coordinates.  A CoordIJK is a record [i, j, k] of Go ints.          *)
(***************************************************************************)
(* The element of a one-element set.  Only({e(x) : x \in {v}}) is e(v)     *)
(* with v worked out once, however often e reads it.                       *)
Only(S) == CHOOSE x \in S : TRUE

Min2(a, b) == IF a < b THEN a ELSE b

(* Go's integer division truncates toward zero. *)
GoDiv(a, b) == IF a >= 0 THEN a \div b ELSE -((-a) \div b)

(* Normalize without its last step, the removal of the minimum. *)
NormalizeKeepMin(ijk) ==
    Only({Only({IF c2.k < 0
                THEN [i |-> c2.i - c2.k, j |-> c2.j - c2.k, k |-> 0]
                ELSE c2 :
            c2 \in {IF c1.j < 0
                    THEN [i |-> c1.i - c1.j, j |-> 0, k |-> c1.k - c1.j]
                    ELSE c1}}) :
            c1 \in {IF ijk.i < 0
                    THEN [i |-> 0, j |-> ijk.j - ijk.i, k |-> ijk.k - ijk.i]
                    ELSE ijk}})

_ijkNormalize(ijk) ==
    Only({Only({Only({Only({Only({
        IF min > 0
        THEN [i |-> c3.i - min, j |-> c3.j - min, k |-> c3.k - min]
        ELSE c3 :
            min \in {Min2(c3.i, Min2(c3.j, c3.k))}}) :
            c3 \in {IF c2.k < 0
                    THEN [i |-> c2.i - c2.k, j |-> c2.j - c2.k, k |-> 0]
                    ELSE c2}}) :
            c2 \in {IF c1.j < 0
                    THEN [i |-> c1.i - c1.j, j |-> 0, k |-> c1.k - c1.j]
                    ELSE c1}}) :
            c1 \in {IF c.i < 0
                    THEN [i |-> 0, j |-> c.j - c.i, k |-> c.k - c.i]
                    ELSE c}}) :
            c \in {ijk}})

UNIT_VECS ==
    [d \in 0..6 |->
        CASE d = 0 -> [i |-> 0, j |-> 0, k |-> 0]
          [] d = 1 -> [i |-> 0, j |-> 0, k |-> 1]
          [] d = 2 -> [i |-> 0, j |-> 1, k |-> 0]
          [] d = 3 -> [i |-> 0, j |-> 1, k |-> 1]
          [] d = 4 -> [i |-> 1, j |-> 0, k |-> 0]
          [] d = 5 -> [i |-> 1, j |-> 0, k |-> 1]
          [] d = 6 -> [i |-> 1, j |-> 1, k |-> 0]]

_ijkSub(h1, h2) == [i |-> h1.i - h2.i, j |-> h1.j - h2.j, k |-> h1.k - h2.k]

_unitIjkToDigit(ijk) ==
    Only({IF \E d \in 0..(NUM_DIGITS - 1) : UNIT_VECS[d] = c
          THEN CHOOSE d \in 0..(NUM_DIGITS - 1) : UNIT_VECS[d] = c
          ELSE INVALID_DIGIT : c \in {_ijkNormalize(ijk)}})

(* (3*i - j) / 7.0 and (i + 2*j) / 7.0 are divisions of Go ints (the        *)
(* untyped constant 7.0 takes the type int), so the quotient is truncated   *)
(* before math.Round sees it.                                               *)
_upAp7(ijk) ==
    LET i == ijk.i - ijk.k
        j == ijk.j - ijk.k
    IN  _ijkNormalize([i |-> GoDiv(3 * i - j, 7), j |-> GoDiv(i + 2 * j, 7),
                       k |-> 0])

_upAp7r(ijk) ==
    LET i == ijk.i - ijk.k
        j == ijk.j - ijk.k
    IN  _ijkNormalize([i |-> GoDiv(2 * i + j, 7), j |-> GoDiv(3 * j - i, 7),
                       k |-> 0])

_downAp7(ijk) ==
    _ijkNormalize([i |-> 3 * ijk.i + ijk.j,
                   j |-> 3 * ijk.j + ijk.k,
                   k |-> ijk.i + 3 * ijk.k])

_downAp7r(ijk) ==
    _ijkNormalize([i |-> 3 * ijk.i + ijk.k,
                   j |-> ijk.i + 3 * ijk.j,
                   k |-> ijk.j + 3 * ijk.k])

isResClassIII(r) == r % 2 = 1

(***************************************************************************)
(* Rotation of the digits of an index.                                     *)
(***************************************************************************)
_rotate60ccw(digit) ==
    CASE digit = 1 -> 5 [] digit = 5 -> 4 [] digit = 4 -> 6
      [] digit = 6 -> 2 [] digit = 2 -> 3 [] digit = 3 -> 1
      [] OTHER -> digit

_rotate60cw(digit) ==
    CASE digit = 1 -> 3 [] digit = 3 -> 2 [] digit = 2 -> 6
      [] digit = 6 -> 4 [] digit = 4 -> 5 [] digit = 5 -> 1
      [] OTHER -> digit

_h3Rotate60ccw(h) ==
    Only({[x EXCEPT !.digits = [r \in 1..MAX_H3_RES |->
              IF r <= H3_GET_RESOLUTION(x) THEN _rotate60ccw(x.digits[r])
              ELSE x.digits[r]]] : x \in {h}})

_h3Rotate60cw(h) ==
    Only({[x EXCEPT !.digits = [r \in 1..MAX_H3_RES |->
              IF r <= H3_GET_RESOLUTION(x) THEN _rotate60cw(x.digits[r])
              ELSE x.digits[r]]] : x \in {h}})

(* One pass of the loop of _h3RotatePent60ccw: h1 is h after digit r is     *)
(* rotated, first says that digit r is the first that is not 0.            *)
RotatePent60ccwStep(h1, r, foundFirstNonZeroDigit) ==
    LET first == ~foundFirstNonZeroDigit /\ H3_GET_INDEX_DIGIT(h1, r) # 0
    IN  [h |-> IF first /\ _h3LeadingNonZeroDigit(h1) = K_AXES_DIGIT
               THEN _h3Rotate60ccw(h1) ELSE h1,
         found |-> foundFirstNonZeroDigit \/ first]

RECURSIVE RotatePent60ccwFrom(_, _, _)
(* The loop of _h3RotatePent60ccw from digit r on. *)
RotatePent60ccwFrom(h, r, foundFirstNonZeroDigit) ==
    Only({IF r > H3_GET_RESOLUTION(x) THEN x
          ELSE Only({RotatePent60ccwFrom(s.h, r + 1, s.found) :
                  s \in {RotatePent60ccwStep(
                             H3_SET_INDEX_DIGIT(x, r,
                                 _rotate60ccw(H3_GET_INDEX_DIGIT(x, r))),
                             r, f)}}) :
        x \in {h}, f \in {foundFirstNonZeroDigit}})

_h3RotatePent60ccw(h) == RotatePent60ccwFrom(h, 1, FALSE)

(* One pass of the loop of _h3RotatePent60cw. *)
RotatePent60cwStep(h1, r, foundFirstNonZeroDigit) ==
    LET first == ~foundFirstNonZeroDigit /\ H3_GET_INDEX_DIGIT(h1, r) # 0
    IN  [h |-> IF first /\ _h3LeadingNonZeroDigit(h1) = K_AXES_DIGIT
               THEN _h3Rotate60cw(h1) ELSE h1,
         found |-> foundFirstNonZeroDigit \/ first]

RECURSIVE RotatePent60cwFrom(_, _, _)
(* The loop of _h3RotatePent60cw from digit r on. *)
RotatePent60cwFrom(h, r, foundFirstNonZeroDigit) ==
    Only({IF r > H3_GET_RESOLUTION(x) THEN x
          ELSE Only({RotatePent60cwFrom(s.h, r + 1, s.found) :
                  s \in {RotatePent60cwStep(
                             H3_SET_INDEX_DIGIT(x, r,
                                 _rotate60cw(H3_GET_INDEX_DIGIT(x, r))),
                             r, f)}}) :
        x \in {h}, f \in {foundFirstNonZeroDigit}})

_h3RotatePent60cw(h) == RotatePent60cwFrom(h, 1, FALSE)

RECURSIVE Rotate60ccwTimes(_, _)
(* for i := 0; i < numRots; i++ { h = _h3Rotate60ccw(h) } *)
Rotate60ccwTimes(h, numRots) ==
    IF numRots <= 0 THEN h
    ELSE Rotate60ccwTimes(_h3Rotate60ccw(h), numRots - 1)

RECURSIVE RotatePent60ccwTimes(_, _)
(* for i := 0; i < numRots; i++ { h = _h3RotatePent60ccw(h) } *)
RotatePent60ccwTimes(h, numRots) ==
    IF numRots <= 0 THEN h
    ELSE RotatePent60ccwTimes(_h3RotatePent60ccw(h), numRots - 1)

(***************************************************************************)
(* Floating point values.  A float64 is kept as its class and, when it is  *)
(* finite, a tag that tells one finite number from another; arithmetic on  *)
(* finite numbers is not modelled.                                         *)
(***************************************************************************)
Finite(id) == [cls |-> "finite", id |-> id]
NaN == [cls |-> "NaN", id |-> << >>]
PosInf == [cls |-> "+Inf", id |-> << >>]
NegInf == [cls |-> "-Inf", id |-> << >>]

(* math.IsInf(f, 0) *)
IsInf(f) == f.cls \in {"+Inf", "-Inf"}

IsFinite(f) == f.cls = "finite"

(* int(x) for a NaN x.  The Go specification leaves the result of a        *)
(* float-to-int conversion that cannot represent the value to the          *)
(* implementation: arm64 gives 0, amd64 the most negative int.  The latter *)
(* is kept as a negative number that TLC can compute with and that, like   *)
(* the most negative int, is still far outside a face after MAX_H3_RES     *)
(* aperture 7 steps.                                                       *)
IntOfNaN == {0, -(2 ^ 28)}

(***************************************************************************)
(* GeoToH3.                                                                *)
(***************************************************************************)
(* basecells.go is not part of the given sources.  faceIjkBaseCells is the *)
(* face-ijk to base cell table of the H3 grid for face 0, the only face    *)
(* the paths modelled here look up: <<base cell, ccw rotations>>.          *)
faceIjkBaseCells ==
    [c \in (0..MAX_FACE_COORD) \X (0..MAX_FACE_COORD) \X (0..MAX_FACE_COORD) |->
        CASE c = <<0, 0, 0>> -> <<16, 0>> [] c = <<0, 0, 1>> -> <<18, 0>>
          [] c = <<0, 0, 2>> -> <<24, 0>> [] c = <<0, 1, 0>> -> <<33, 0>>
          [] c = <<0, 1, 1>> -> <<30, 0>> [] c = <<0, 1, 2>> -> <<32, 3>>
          [] c = <<0, 2, 0>> -> <<49, 1>> [] c = <<0, 2, 1>> -> <<48, 3>>
          [] c = <<0, 2, 2>> -> <<50, 3>> [] c = <<1, 0, 0>> -> <<8, 0>>
          [] c = <<1, 0, 1>> -> <<5, 5>>  [] c = <<1, 0, 2>> -> <<10, 5>>
          [] c = <<1, 1, 0>> -> <<22, 0>> [] c = <<1, 1, 1>> -> <<16, 0>>
          [] c = <<1, 1, 2>> -> <<18, 0>> [] c = <<1, 2, 0>> -> <<41, 1>>
          [] c = <<1, 2, 1>> -> <<33, 0>> [] c = <<1, 2, 2>> -> <<30, 0>>
          [] c = <<2, 0, 0>> -> <<4, 0>>  [] c = <<2, 0, 1>> -> <<0, 5>>
          [] c = <<2, 0, 2>> -> <<2, 5>>  [] c = <<2, 1, 0>> -> <<15, 1>>
          [] c = <<2, 1, 1>> -> <<8, 0>>  [] c = <<2, 1, 2>> -> <<5, 5>>
          [] c = <<2, 2, 0>> -> <<31, 1>> [] c = <<2, 2, 1>> -> <<22, 0>>
          [] c = <<2, 2, 2>> -> <<16, 0>>]

_faceIjkToBaseCell(fijk) ==
    faceIjkBaseCells[<<fijk.coord.i, fijk.coord.j, fijk.coord.k>>][1]

_faceIjkToBaseCellCCWrot60(fijk) ==
    faceIjkBaseCells[<<fijk.coord.i, fijk.coord.j, fijk.coord.k>>][2]

(* _geoToHex2d for a coordinate with an infinite component, the only kind  *)
(* GeoToH3 lets through: every sine and cosine of it is NaN, so the        *)
(* squared distances are NaN, no  sqdT < sqd  holds and face stays 0;      *)
(* r and theta are NaN,  r < EPSILON  is false, and v is (NaN, NaN).       *)
_geoToHex2d(g, r) == [face |-> 0, v |-> [x |-> NaN, y |-> NaN]]

(* _hex2dToCoordIJK for v = (NaN, NaN): a1, a2, x1, x2, r1 and r2 are NaN, *)
(* every comparison is false, so the last branch sets h.i = m1 + 1 and     *)
(* h.j = m2 + 1 and nothing is folded; m1 = int(x1) and m2 = int(x2) are   *)
(* conversions of NaN.                                                     *)
_hex2dToCoordIJK(v) ==
    {_ijkNormalize([i |-> m + 1, j |-> m + 1, k |-> 0]) : m \in IntOfNaN}

_geoToFaceIjk(g, r) ==
    {[face |-> _geoToHex2d(g, r).face, coord |-> c] :
        c \in _hex2dToCoordIJK(_geoToHex2d(g, r).v)}

OutOfFace(c) ==
    c.i > MAX_FACE_COORD \/ c.j > MAX_FACE_COORD \/ c.k > MAX_FACE_COORD

(* One pass of the loop of _faceIjkToH3 at r: the ijk one resolution up    *)
(* and the digit r + 1 that leads from it to lastIJK.                       *)
FaceIjkStep(lastIJK, r) ==
    Only({Only({[up |-> up,
                 digit |-> _unitIjkToDigit(
                               _ijkNormalize(_ijkSub(lastIJK, lastCenter)))] :
              lastCenter \in {IF isResClassIII(r + 1) THEN _downAp7(up)
                                                       ELSE _downAp7r(up)}}) :
        up \in {IF isResClassIII(r + 1) THEN _upAp7(lastIJK)
                                        ELSE _upAp7r(lastIJK)}})

RECURSIVE FaceIjkDigits(_, _, _)
(* The loop  for r := res - 1; r >= 0; r--  of _faceIjkToH3: the index     *)
(* with digits r+1 .. 1 set, and the ijk the loop ends with.               *)
FaceIjkDigits(h, ijk, r) ==
    IF r < 0 THEN [h |-> h, ijk |-> ijk]
    ELSE Only({FaceIjkDigits(H3_SET_INDEX_DIGIT(x, r + 1, s.digit), s.up,
                             r - 1) :
                 x \in {h}, s \in {FaceIjkStep(ijk, r)}})

(* _faceIjkToH3 once the loop has left the index h and the base cell's     *)
(* FaceIJK fijkBC.  The table of clockwise offset faces                    *)
(* (_baseCellIsCwOffset) is not part of the given sources: where the code  *)
(* asks it, both answers are kept.                                         *)
FaceIjkBaseCellRotate(h, fijkBC) ==
    IF OutOfFace(fijkBC.coord) THEN {H3_NULL}
    ELSE
    LET baseCell == _faceIjkToBaseCell(fijkBC)
        h1 == H3_SET_BASE_CELL(h, baseCell)
        numRots == _faceIjkToBaseCellCCWrot60(fijkBC)
    IN  IF _isBaseCellPentagon(baseCell)
        THEN LET hs == IF _h3LeadingNonZeroDigit(h1) = K_AXES_DIGIT
                       THEN {_h3Rotate60cw(h1), _h3Rotate60ccw(h1)}
                       ELSE {h1}
             IN  {RotatePent60ccwTimes(x, numRots) : x \in hs}
        ELSE {Rotate60ccwTimes(h1, numRots)}

(* The set of the indexes _faceIjkToH3(fijk, r) can return. *)
_faceIjkToH3(fijk, r) ==
    LET h0 == H3_SET_RESOLUTION(H3_SET_MODE(H3_INIT, H3_HEXAGON_MODE), r)
    IN  IF r = 0
        THEN IF OutOfFace(fijk.coord) THEN {H3_NULL}
             ELSE {H3_SET_BASE_CELL(h0, _faceIjkToBaseCell(fijk))}
        ELSE UNION {FaceIjkBaseCellRotate(walked.h,
                        [face |-> fijk.face, coord |-> walked.ijk]) :
                      walked \in {FaceIjkDigits(h0, fijk.coord, r - 1)}}

(* The set of the indexes GeoToH3(g, r) can return. *)
GeoToH3(g, r) ==
    IF r < 0 \/ r > MAX_H3_RES THEN {H3_NULL}
    ELSE IF ~IsInf(g.lat) \/ ~IsInf(g.lon) THEN {H3_NULL}
    ELSE UNION {_faceIjkToH3(fijk, r) : fijk \in _geoToFaceIjk(g, r)}

(* H3ToGeo: _h3ToFaceIjk gives integer face coordinates and _faceIjkToGeo  *)
(* turns them into radians with atan, asin, atan2 and constrainLng, none   *)
(* of which returns an infinity: the centre of a cell is a pair of finite  *)
(* numbers, told apart here by the cell they are the centre of.            *)
H3ToGeo(h3) ==
    LET key == <<H3_GET_BASE_CELL(h3), H3_GET_RESOLUTION(h3)>> \o h3.digits
    IN  [lat |-> Finite(<<1>> \o key), lon |-> Finite(<<2>> \o key)]

(***************************************************************************)
(* The methods of the hierarchy.                                           *)
(***************************************************************************)
(* ToParent that only lowers the resolution and leaves the digits. *)
ToParentKeepDigits(h3, parentRes) ==
    LET childRes == H3_GET_RESOLUTION(h3) IN
    IF parentRes > childRes THEN H3_NULL
    ELSE IF parentRes = childRes THEN h3
    ELSE IF parentRes < 0 \/ parentRes > MAX_H3_RES THEN H3_NULL
    ELSE H3_SET_RESOLUTION(h3, parentRes)

ToParent(h3, parentRes) ==
    LET childRes == H3_GET_RESOLUTION(h3) IN
    IF parentRes > childRes THEN H3_NULL
    ELSE IF parentRes = childRes THEN h3
    ELSE IF parentRes < 0 \/ parentRes > MAX_H3_RES THEN H3_NULL
    ELSE [h3 EXCEPT !.res = parentRes,
                    !.digits = [i \in 1..MAX_H3_RES |->
                        IF i >= parentRes + 1 /\ i <= childRes
                        THEN H3_DIGIT_MASK ELSE h3.digits[i]]]

(* ToCenterChild that only raises the resolution and leaves the digits. *)
ToCenterChildKeepDigits(h3, childRes) ==
    LET parentRes == H3_GET_RESOLUTION(h3) IN
    IF ~_isValidChildRes(parentRes, childRes) THEN H3_NULL
    ELSE IF childRes = parentRes THEN h3
    ELSE H3_SET_RESOLUTION(h3, childRes)

ToCenterChild(h3, childRes) ==
    LET parentRes == H3_GET_RESOLUTION(h3) IN
    IF ~_isValidChildRes(parentRes, childRes) THEN H3_NULL
    ELSE IF childRes = parentRes THEN h3
    ELSE [h3 EXCEPT !.res = childRes,
                    !.digits = [i \in 1..MAX_H3_RES |->
                        IF i >= parentRes + 1 /\ i <= childRes
                        THEN 0 ELSE h3.digits[i]]]

(***************************************************************************)
(* Unidirectional edges.                                                   *)
(***************************************************************************)
H3_SET_RESERVED_BITS(h3, v) == [h3 EXCEPT !.reserved = v]

H3IsValid(h) == IsValid(h)

GetOriginH3IndexFromUnidirectionalEdge(edge) ==
    IF H3_GET_MODE(edge) # H3_UNIEDGE_MODE THEN H3_NULL
    ELSE H3_SET_RESERVED_BITS(H3_SET_MODE(edge, H3_HEXAGON_MODE), 0)

H3UnidirectionalEdgeIsValid(edge) ==
    LET neighborDirection == H3_GET_RESERVED_BITS(edge)
        origin == GetOriginH3IndexFromUnidirectionalEdge(edge)
    IN  IF H3_GET_MODE(edge) # H3_UNIEDGE_MODE THEN FALSE
        ELSE IF neighborDirection <= CENTER_DIGIT
                  \/ neighborDirection >= NUM_DIGITS THEN FALSE
        ELSE IF H3IsPentagon(origin) /\ neighborDirection = K_AXES_DIGIT
        THEN FALSE
        ELSE H3IsValid(origin)

(* GetH3UnidirectionalEdgesFromHexagon that fills slot 0 of a pentagon      *)
(* like the others.                                                        *)
EdgesFromHexagonWithK(origin) ==
    [i \in 1..6 |->
        H3_SET_RESERVED_BITS(H3_SET_MODE(origin, H3_UNIEDGE_MODE), i)]

(* The six slots of edges, slot i of the code at place i + 1. *)
GetH3UnidirectionalEdgesFromHexagon(origin) ==
    LET isPentagon == H3IsPentagon(origin) IN
    [i \in 1..6 |->
        IF isPentagon /\ i - 1 = 0 THEN H3_NULL
        ELSE H3_SET_RESERVED_BITS(H3_SET_MODE(origin, H3_UNIEDGE_MODE),
                                  (i - 1) + 1)]

(***************************************************************************)
(* Local ijk coordinates (coordij.go).                                     *)
(***************************************************************************)
(* var ijk CoordIJK *)
ZeroCoordIJK == [i |-> 0, j |-> 0, k |-> 0]

_ijkAdd(h1, h2) == [i |-> h1.i + h2.i, j |-> h1.j + h2.j, k |-> h1.k + h2.k]

_neighbor(ijk, digit) ==
    IF digit > CENTER_DIGIT /\ digit < NUM_DIGITS
    THEN _ijkNormalize(_ijkAdd(ijk, UNIT_VECS[digit]))
    ELSE ijk

(* i * {1, 0, 1} + j * {1, 1, 0} + k * {0, 1, 1}, normalized *)
_ijkRotate60cw(ijk) ==
    _ijkNormalize([i |-> ijk.i + ijk.j, j |-> ijk.j + ijk.k,
                   k |-> ijk.i + ijk.k])

(* i * {1, 1, 0} + j * {0, 1, 1} + k * {1, 0, 1}, normalized *)
_ijkRotate60ccw(ijk) ==
    _ijkNormalize([i |-> ijk.i + ijk.k, j |-> ijk.i + ijk.j,
                   k |-> ijk.j + ijk.k])

RECURSIVE IjkRotate60cwTimes(_, _)
(* for i := 0; i < numRots; i++ { _ijkRotate60cw(&ijk) } *)
IjkRotate60cwTimes(ijk, numRots) ==
    IF numRots <= 0 THEN ijk
    ELSE IjkRotate60cwTimes(_ijkRotate60cw(ijk), numRots - 1)

RECURSIVE H3ToFaceIjkFrom(_, _, _)
(* The loop of _h3ToFaceIjkWithInitializedFijk from digit r on. *)
H3ToFaceIjkFrom(h, ijk, r) ==
    IF r > H3_GET_RESOLUTION(h) THEN ijk
    ELSE Only({H3ToFaceIjkFrom(h, _neighbor(down, H3_GET_INDEX_DIGIT(h, r)),
                               r + 1) :
                 down \in {IF isResClassIII(r) THEN _downAp7(ijk)
                                               ELSE _downAp7r(ijk)}})

(* The coordinates _h3ToFaceIjkWithInitializedFijk leaves in fijk.coord. *)
_h3ToFaceIjkWithInitializedFijk(h, ijk) == H3ToFaceIjkFrom(h, ijk, 1)

(* The tables are kept by rows: row d + 1 is the row of digit d. *)
PENTAGON_ROTATIONS ==
    << <<0, -1, 0, 0, 0, 0, 0>>,
       <<-1, -1, -1, -1, -1, -1, -1>>,
       <<0, -1, 0, 0, 0, 1, 0>>,
       <<0, -1, 0, 0, 1, 1, 0>>,
       <<0, -1, 0, 5, 0, 0, 0>>,
       <<0, -1, 5, 5, 0, 0, 0>>,
       <<0, -1, 0, 0, 0, 0, 0>> >>

PENTAGON_ROTATIONS_REVERSE ==
    << <<0, 0, 0, 0, 0, 0, 0>>,
       <<-1, -1, -1, -1, -1, -1, -1>>,
       <<0, 1, 0, 0, 0, 0, 0>>,
       <<0, 1, 0, 0, 0, 1, 0>>,
       <<0, 5, 0, 0, 0, 0, 0>>,
       <<0, 5, 0, 5, 0, 0, 0>>,
       <<0, 0, 0, 0, 0, 0, 0>> >>

FAILED_DIRECTIONS ==
    << <<FALSE, FALSE, FALSE, FALSE, FALSE, FALSE, FALSE>>,
       <<FALSE, FALSE, FALSE, FALSE, FALSE, FALSE, FALSE>>,
       <<FALSE, FALSE, FALSE, FALSE, TRUE, TRUE, FALSE>>,
       <<FALSE, FALSE, FALSE, FALSE, TRUE, FALSE, TRUE>>,
       <<FALSE, FALSE, TRUE, TRUE, FALSE, FALSE, FALSE>>,
       <<FALSE, FALSE, TRUE, FALSE, FALSE, FALSE, TRUE>>,
       <<FALSE, FALSE, FALSE, TRUE, FALSE, TRUE, FALSE>> >>

(* basecells.go is not among the sources.  Of its tables the calls below   *)
(* read only these entries: the neighbor of a base cell in direction       *)
(* CENTER is the base cell, a pentagon has no neighbor in direction K,     *)
(* and base cells 4 and 121, at opposite poles, are not neighbors.         *)
INVALID_BASE_CELL == 127

LocalBaseCells == {4, NUM_BASE_CELLS - 1}

_getBaseCellNeighbor(baseCell, dir) ==
    CASE dir = CENTER_DIGIT -> baseCell
      [] dir = K_AXES_DIGIT /\ _isBaseCellPentagon(baseCell) ->
             INVALID_BASE_CELL

_getBaseCellDirection(originBaseCell, neighboringBaseCell) ==
    CASE originBaseCell = neighboringBaseCell -> CENTER_DIGIT
      [] {originBaseCell, neighboringBaseCell} = LocalBaseCells ->
             INVALID_DIGIT

(* What h3ToLocalIjk returns and leaves in out, for an origin and an index *)
(* of one base cell or of two base cells that are not neighbors.           *)
h3ToLocalIjk(origin, h3) ==
    LET Failed(code, class) == [code |-> code, ijk |-> ZeroCoordIJK,
                                class |-> class]
        originBaseCell == H3_GET_BASE_CELL(origin)
        baseCell == H3_GET_BASE_CELL(h3)
        onPent == _isBaseCellPentagon(originBaseCell)
                      /\ _isBaseCellPentagon(baseCell)
        originLeadingDigit == _h3LeadingNonZeroDigit(origin)
        indexLeadingDigit == _h3LeadingNonZeroDigit(h3)
    IN  IF H3_GET_RESOLUTION(origin) # H3_GET_RESOLUTION(h3)
        THEN Failed(1, "resolution mismatch")
        ELSE IF originBaseCell # baseCell
                  /\ _getBaseCellDirection(originBaseCell, baseCell)
                         = INVALID_DIGIT
        THEN Failed(2, "base cells not neighbors")
        ELSE IF onPent /\ FAILED_DIRECTIONS[originLeadingDigit + 1][indexLeadingDigit + 1]
        THEN Failed(5, "pentagon unfolding refused")
        ELSE [code |-> 0,
              ijk |-> Only({IF onPent
                            THEN IjkRotate60cwTimes(c,
                                     PENTAGON_ROTATIONS[originLeadingDigit + 1]
                                                       [indexLeadingDigit + 1])
                            ELSE c :
                         c \in {_h3ToFaceIjkWithInitializedFijk(h3,
                                                                ZeroCoordIJK)}}),
              class |-> "none"]

(* The loop  for r := res - 1; r >= 0; r--  of localIjkToH3 has the        *)
(* statements of the loop of _faceIjkToH3.                                 *)
LocalIjkDigits(out, ijkCopy, r) == FaceIjkDigits(out, ijkCopy, r)

RECURSIVE Rotate60ccwDigit(_, _)
(* for i := 0; i < numRots; i++ { dir = _rotate60ccw(dir) } *)
Rotate60ccwDigit(dir, numRots) ==
    IF numRots <= 0 THEN dir
    ELSE Rotate60ccwDigit(_rotate60ccw(dir), numRots - 1)

(* A return of localIjkToH3 with out as it stands, and a panic of it. *)
LocalIjkReturn(code, out, class) ==
    [code |-> code, out |-> out, class |-> class, panic |-> FALSE]

LocalIjkPanic(out) ==
    [code |-> 0, out |-> out, class |-> "panic", panic |-> TRUE]

(* localIjkToH3 at resolution 0, out being the initialized index. *)
LocalIjkToBaseCell(origin, ijk, out) ==
    IF ijk.i > 1 \/ ijk.j > 1 \/ ijk.k > 1
    THEN LocalIjkReturn(1, out, "out of range")
    ELSE LET newBaseCell == _getBaseCellNeighbor(H3_GET_BASE_CELL(origin),
                                                 _unitIjkToDigit(ijk))
         IN  IF newBaseCell = INVALID_BASE_CELL
             THEN LocalIjkReturn(1, out, "deleted K")
             ELSE LocalIjkReturn(0, H3_SET_BASE_CELL(out, newBaseCell),
                                 "none")

(* localIjkToH3 after the loop, which left the index out and the ijk of    *)
(* the base cell, for a base cell reached in direction CENTER or, from a   *)
(* pentagon, in direction K.  PENTAGON_ROTATIONS_REVERSE is a [7][7]int:   *)
(* a leading digit 7 of out is an index out of range.                      *)
LocalIjkFinish(origin, ijkCopy, out) ==
    LET originBaseCell == H3_GET_BASE_CELL(origin)
        originOnPent == _isBaseCellPentagon(originBaseCell)
        dir == _unitIjkToDigit(ijkCopy)
        baseCell == _getBaseCellNeighbor(originBaseCell, dir)
        indexOnPent == IF baseCell = INVALID_BASE_CELL THEN FALSE
                       ELSE _isBaseCellPentagon(baseCell)
        originLeadingDigit == _h3LeadingNonZeroDigit(origin)
        within == dir = CENTER_DIGIT /\ originOnPent /\ indexOnPent
        rotated ==
            IF within
            THEN Rotate60ccwTimes(out,
                     PENTAGON_ROTATIONS_REVERSE[originLeadingDigit + 1]
                         [_h3LeadingNonZeroDigit(out) + 1])
            ELSE out
    IN  IF ijkCopy.i > 1 \/ ijkCopy.j > 1 \/ ijkCopy.k > 1
        THEN LocalIjkReturn(2, out, "out of range")
        ELSE IF dir # CENTER_DIGIT /\ originOnPent
                  /\ Rotate60ccwDigit(dir,
                         PENTAGON_ROTATIONS_REVERSE[originLeadingDigit + 1][dir + 1])
                       = K_AXES_DIGIT
        THEN LocalIjkReturn(3, out, "deleted K")
        ELSE IF within /\ _h3LeadingNonZeroDigit(out) >= NUM_DIGITS
        THEN LocalIjkPanic(out)
        ELSE IF indexOnPent /\ _h3LeadingNonZeroDigit(rotated) = K_AXES_DIGIT
        THEN LocalIjkReturn(4, rotated, "deleted K")
        ELSE LocalIjkReturn(0, H3_SET_BASE_CELL(rotated, baseCell), "none")

(* What localIjkToH3 returns and leaves in out. *)
localIjkToH3(origin, ijk) ==
    LET r == H3_GET_RESOLUTION(origin)
        out == H3_SET_RESOLUTION(H3_SET_MODE(H3_INIT, H3_HEXAGON_MODE), r)
    IN  IF r = 0 THEN LocalIjkToBaseCell(origin, ijk, out)
        ELSE Only({LocalIjkFinish(origin, walked.ijk, walked.h) :
                      walked \in {LocalIjkDigits(out, ijk, r - 1)}})

(* The base cell direction localIjkToH3 works out for ijk, INVALID_DIGIT   *)
(* when it returns before it has one.                                      *)
LocalIjkDirection(origin, ijk) ==
    LET r == H3_GET_RESOLUTION(origin)
        ijkCopy == IF r = 0 THEN ijk
                   ELSE LocalIjkDigits(H3_INIT, ijk, r - 1).ijk
    IN  IF ijkCopy.i > 1 \/ ijkCopy.j > 1 \/ ijkCopy.k > 1 THEN INVALID_DIGIT
        ELSE _unitIjkToDigit(ijkCopy)

(* localIjkToH3(origin, ijk) reads no entry of the base cell tables but    *)
(* those given above.                                                      *)
InLocalTables(origin, ijk) ==
    LET dir == LocalIjkDirection(origin, ijk)
        originLeadingDigit == _h3LeadingNonZeroDigit(origin)
    IN  \/ dir \in {CENTER_DIGIT, INVALID_DIGIT}
        \/ /\ _isBaseCellPentagon(H3_GET_BASE_CELL(origin))
           /\ IF H3_GET_RESOLUTION(origin) = 0 THEN dir = K_AXES_DIGIT
              ELSE Rotate60ccwDigit(dir,
                       PENTAGON_ROTATIONS_REVERSE[originLeadingDigit + 1][dir + 1])
                     = K_AXES_DIGIT

(***************************************************************************)
(* Grid distance and grid line.                                            *)
(***************************************************************************)
abs(x) == IF x < 0 THEN -x ELSE x

max(x, y) == IF x > y THEN x ELSE y

(* ijkDistance without _ijkNormalize and abs. *)
ijkDistanceOneSided(c1, c2) ==
    Only({max(diff.i, max(diff.j, diff.k)) : diff \in {_ijkSub(c1, c2)}})

ijkDistance(c1, c2) ==
    Only({max(abs(diff.i), max(abs(diff.j), abs(diff.k))) :
             diff \in {_ijkNormalize(_ijkSub(c1, c2))}})

H3Distance(origin, h3) ==
    Only({IF originIjk.code # 0 THEN -1
          ELSE IF h3Ijk.code # 0 THEN -1
          ELSE ijkDistance(originIjk.ijk, h3Ijk.ijk) :
        originIjk \in {h3ToLocalIjk(origin, origin)},
        h3Ijk \in {h3ToLocalIjk(origin, h3)}})

H3LineSize(start, end) ==
    Only({IF distance >= 0 THEN distance + 1 ELSE distance :
             distance \in {H3Distance(start, end)}})

(* ijk.i is assigned before ijk.k reads it. *)
ijkToCube(ijk) ==
    [i |-> ijk.k - ijk.i, j |-> ijk.j - ijk.k,
     k |-> (0 - (ijk.k - ijk.i)) - (ijk.j - ijk.k)]

cubeToIjk(ijk) == _ijkNormalize([i |-> 0 - ijk.i, j |-> ijk.j, k |-> 0])

(* math.Round of num / den, den > 0: halves go away from zero. *)
RoundOver(num, den) ==
    IF num >= 0 THEN (2 * num + den) \div (2 * den)
    ELSE 0 - ((2 * (0 - num) + den) \div (2 * den))

(* cubeRound of the coordinates i / den, j / den, k / den, den > 0. *)
cubeRound(i, j, k, den) ==
    LET ri == RoundOver(i, den)
        rj == RoundOver(j, den)
        rk == RoundOver(k, den)
        iDiff == abs(ri * den - i)
        jDiff == abs(rj * den - j)
        kDiff == abs(rk * den - k)
    IN  IF iDiff > jDiff /\ iDiff > kDiff
        THEN [i |-> (0 - rj) - rk, j |-> rj, k |-> rk]
        ELSE IF jDiff > kDiff
        THEN [i |-> ri, j |-> (0 - ri) - rk, k |-> rk]
        ELSE [i |-> ri, j |-> rj, k |-> (0 - ri) - rj]

(* The ijk H3Line hands to localIjkToH3 at step n of a line of length      *)
(* distance: start + step * n is (start * distance + (end - start) * n)    *)
(* over distance, and start when the distance is 0.                        *)
LineIjk(startIjk, endIjk, distance, n) ==
    Only({cubeToIjk(
              cubeRound(s.i * den + (e.i - s.i) * n,
                        s.j * den + (e.j - s.j) * n,
                        s.k * den + (e.k - s.k) * n, den)) :
        s \in {ijkToCube(startIjk)}, e \in {ijkToCube(endIjk)},
        den \in {max(distance, 1)}})

(* The ijk of the steps 0 .. distance of H3Line(start, end), whose        *)
(* distance is not negative.                                               *)
LineIjks(start, end) ==
    Only({[n \in 1..(distance + 1) |->
              LineIjk(startIjk, endIjk, distance, n - 1)] :
        startIjk \in {h3ToLocalIjk(start, start).ijk},
        endIjk \in {h3ToLocalIjk(start, end).ijk},
        distance \in {H3Distance(start, end)}})

(* What H3Line returns and the cells it writes; localIjkToH3 writes out[n] *)
(* whatever it returns, and H3Line panics when localIjkToH3 does.          *)
H3Line(start, end) ==
    IF H3Distance(start, end) < 0
    THEN [code |-> H3Distance(start, end), out |-> << >>, panic |-> FALSE]
    ELSE Only({[code |-> 0,
                out |-> [n \in DOMAIN steps |-> steps[n].out],
                panic |-> \E n \in DOMAIN steps : steps[n].panic] :
            steps \in {[n \in DOMAIN LineIjks(start, end) |->
                          localIjkToH3(start, LineIjks(start, end)[n])]}})

(***************************************************************************)
(* Neighbors and the edge between two neighbors.  h3NeighborRotations and  *)
(* KRing are in algos.go, which is not among the sources: they are taken   *)
(* from their description, the neighbor of a cell in a direction being the *)
(* cell one unit vector away in the ijk coordinates of its base cell.      *)
(* Only the neighbors inside the base cell of the origin, a hexagon, are   *)
(* given; InNeighborTables(origin) says that all six are.  RoundOver is    *)
(* defined with cubeRound above.                                           *)
(***************************************************************************)
J_AXES_DIGIT == 2

(* The cell of base cell bc whose digits 1..Len(ds) are ds. *)
Cell(bc, ds) ==
    [high |-> 0, mode |-> H3_HEXAGON_MODE, reserved |-> 0, res |-> Len(ds),
     bc |-> bc,
     digits |-> [r \in 1..MAX_H3_RES |->
                    IF r <= Len(ds) THEN ds[r] ELSE INVALID_DIGIT]]

(* The center one resolution up that lies nearest to ijk, the resolution  *)
(* of ijk being r + 1.                                                     *)
NearestUp(ijk, r) ==
    Only({IF isResClassIII(r + 1)
          THEN _ijkNormalize([i |-> RoundOver(3 * c.i - c.j, 7),
                              j |-> RoundOver(c.i + 2 * c.j, 7), k |-> 0])
          ELSE _ijkNormalize([i |-> RoundOver(2 * c.i + c.j, 7),
                              j |-> RoundOver(3 * c.j - c.i, 7), k |-> 0]) :
          c \in {[i |-> ijk.i - ijk.k, j |-> ijk.j - ijk.k]}})

RECURSIVE CellAtFrom(_, _, _)
(* The index with digits r + 1 .. 1 set on the way up from ijk, and the    *)
(* ijk left at resolution 0.                                               *)
CellAtFrom(x, ijk, r) ==
    IF r < 0 THEN [h |-> x, ijk |-> ijk]
    ELSE Only({CellAtFrom(
                   H3_SET_INDEX_DIGIT(x, r + 1, _unitIjkToDigit(
                       _ijkSub(ijk, IF isResClassIII(r + 1) THEN _downAp7(up)
                                    ELSE _downAp7r(up)))),
                   up, r - 1) :
               up \in {NearestUp(ijk, r)}})

(* The cells of the base cell and resolution of origin one unit vector of  *)
(* dir away from it: one cell, or none where the neighbor lies in another  *)
(* base cell.                                                              *)
NeighborsInBaseCell(origin, dir) ==
    Only({{x \in {CellAtFrom(origin, target,
                             H3_GET_RESOLUTION(origin) - 1).h} :
              /\ IsValid(x)
              /\ _h3ToFaceIjkWithInitializedFijk(x, ZeroCoordIJK) = target} :
          target \in {_neighbor(_h3ToFaceIjkWithInitializedFijk(
                                    origin, ZeroCoordIJK), dir)}})

InNeighborTables(origin) ==
    /\ IsValid(origin)
    /\ ~_isBaseCellPentagon(H3_GET_BASE_CELL(origin))
    /\ \A dir \in K_AXES_DIGIT..(NUM_DIGITS - 1) :
           NeighborsInBaseCell(origin, dir) # {}

h3NeighborRotations(origin, dir) ==
    CHOOSE x \in NeighborsInBaseCell(origin, dir) : TRUE

(* The ring of the origin and its six neighbors. *)
KRing(origin, k) ==
    CASE k = 1 ->
        [n \in 1..7 |-> IF n = 1 THEN origin
                        ELSE h3NeighborRotations(origin, n - 1)]

(* CENTER, JK, IJ, J, IK, K, I and CENTER, IK, JK, K, IJ, I, J. *)
neighborSetClockwise == <<0, 3, 6, 2, 5, 1, 4>>
neighborSetCounterclockwise == <<0, 5, 3, 1, 6, 4, 2>>

(* The checks of H3IndexesAreNeighbors before KRing: "true", "false",     *)
(* "panic" where the digit of the origin is no index of the slice of       *)
(* seven, "KRing" where the ring decides.                                  *)
NeighborsByParent(origin, destination) ==
    LET parentRes == H3_GET_RESOLUTION(origin) - 1
        originResDigit == H3_GET_INDEX_DIGIT(origin, parentRes + 1)
        destinationResDigit == H3_GET_INDEX_DIGIT(destination, parentRes + 1)
    IN  IF H3_GET_MODE(origin) # H3_HEXAGON_MODE
           \/ H3_GET_MODE(destination) # H3_HEXAGON_MODE THEN "false"
        ELSE IF origin = destination THEN "false"
        ELSE IF H3_GET_RESOLUTION(origin) # H3_GET_RESOLUTION(destination)
        THEN "false"
        ELSE IF parentRes > 0
                /\ H3ToParent(origin, parentRes)
                     = H3ToParent(destination, parentRes)
        THEN IF originResDigit = CENTER_DIGIT
                \/ destinationResDigit = CENTER_DIGIT THEN "true"
             ELSE IF originResDigit >= Len(neighborSetClockwise) THEN "panic"
             ELSE IF neighborSetClockwise[originResDigit + 1]
                       = destinationResDigit
                     \/ neighborSetCounterclockwise[originResDigit + 1]
                       = destinationResDigit THEN "true"
             ELSE "KRing"
        ELSE "KRing"

H3IndexesAreNeighbors(origin, destination) ==
    Only({[ok |-> \/ byParent = "true"
                  \/ /\ byParent = "KRing"
                     /\ \E i \in 1..7 : KRing(origin, 1)[i] = destination,
           panic |-> byParent = "panic"] :
          byParent \in {NeighborsByParent(origin, destination)}})

(* GetH3UnidirectionalEdge that starts at J_AXES_DIGIT for every origin. *)
EdgeSkippingK(origin, destination) ==
    IF ~H3IndexesAreNeighbors(origin, destination).ok THEN H3_NULL
    ELSE Only({IF dirs = {} THEN H3_NULL
               ELSE H3_SET_RESERVED_BITS(
                        H3_SET_MODE(origin, H3_UNIEDGE_MODE),
                        CHOOSE d \in dirs : \A e \in dirs : d <= e) :
            dirs \in {{d \in J_AXES_DIGIT..(NUM_DIGITS - 1) :
                          h3NeighborRotations(origin, d) = destination}}})

(* The edge is the origin in edge mode with the first direction, from K   *)
(* (from J for a pentagon), whose neighbor is the destination.             *)
GetH3UnidirectionalEdge(origin, destination) ==
    IF ~H3IndexesAreNeighbors(origin, destination).ok THEN H3_NULL
    ELSE Only({IF dirs = {} THEN H3_NULL
               ELSE H3_SET_RESERVED_BITS(
                        H3_SET_MODE(origin, H3_UNIEDGE_MODE),
                        CHOOSE d \in dirs : \A e \in dirs : d <= e) :
            dirs \in {{d \in (IF H3IsPentagon(origin) THEN J_AXES_DIGIT
                              ELSE K_AXES_DIGIT)..(NUM_DIGITS - 1) :
                          h3NeighborRotations(origin, d) = destination}}})

GetDestinationH3IndexFromUnidirectionalEdge(edge) ==
    IF H3_GET_MODE(edge) # H3_UNIEDGE_MODE THEN H3_NULL
    ELSE h3NeighborRotations(GetOriginH3IndexFromUnidirectionalEdge(edge),
                             H3_GET_RESERVED_BITS(edge))

(* originDestination[0] and originDestination[1] at places 1 and 2. *)
GetH3IndexesFromUnidirectionalEdge(edge) ==
    <<GetOriginH3IndexFromUnidirectionalEdge(edge),
      GetDestinationH3IndexFromUnidirectionalEdge(edge)>>

(***************************************************************************)
(* Inputs of the compaction runs.                                          *)
(***************************************************************************)
MaxGroups == 8
MaxLoose == 2
MaxTargetRes == 2
MaxCells == 64

RECURSIVE Flatten(_)
Flatten(ss) == IF ss = << >> THEN << >> ELSE Head(ss) \o Flatten(Tail(ss))

(* s rotated left by k places. *)
Rotated(s, k) ==
    [i \in 1..Len(s) |-> s[((i + k - 1) % Len(s)) + 1]]

(* The resolution-0 cells of base cells 0..n-1 (base cell 4 is a pentagon). *)
BaseSeq(n) == [k \in 1..n |-> Cell(k - 1, << >>)]

(* Every resolution-1 child of base cells 0..n-1. *)
GroupChildren(n) == Flatten([k \in 1..n |-> ToChildren(Cell(k - 1, << >>), 1)])

LooseCells ==
    {Cell(20, <<3>>), Cell(20, <<5>>), Cell(14, <<2>>), Cell(21, <<1, 5>>),
     Cell(22, << >>), H3_NULL}

ParentSample ==
    {Cell(30, << >>), Cell(14, << >>), Cell(31, <<6>>), Cell(14, <<0>>),
     Cell(14, <<3>>), Cell(32, <<1, 0>>), Cell(38, <<0, 0>>)}

FamLoose == UNION {[1..n -> LooseCells] : n \in 1..MaxLoose}

(* All direct children of a parent, in every rotation of their order. *)
FamChildren ==
    {Rotated(ToChildren(P, H3_GET_RESOLUTION(P) + 1), k) :
        P \in ParentSample, k \in 0..6}

(* All direct children of a parent with one of them replaced by, or        *)
(* followed by, a copy of another.                                         *)
FamDuplicate ==
    UNION {LET ch == ToChildren(P, H3_GET_RESOLUTION(P) + 1)
           IN  {[ch EXCEPT ![Len(ch)] = ch[1]], ch \o <<ch[2]>>,
                ch \o <<ch[1], ch[1]>>} : P \in ParentSample}

FamMixed ==
    {GroupChildren(n) \o <<c>> : n \in 1..2, c \in LooseCells}
        \cup {<<c>> \o ToChildren(P, H3_GET_RESOLUTION(P) + 1) :
                 c \in LooseCells, P \in ParentSample}

Inputs ==
    {GroupChildren(n) : n \in 0..MaxGroups}
        \cup {BaseSeq(n) : n \in 1..MaxGroups}
        \cup FamLoose \cup FamChildren \cup FamDuplicate \cup FamMixed

(* Resolutions a caller asks Uncompact for; MAX_H3_RES + 1 is out of range. *)
TargetResSample == (0..(MaxTargetRes + 1)) \cup {MAX_H3_RES + 1}

(***************************************************************************)
(* Inputs of the cell runs.                                                *)
(***************************************************************************)
MaxCoord == 1
MaxDigits == 2

(* Latitudes and longitudes: some finite numbers, NaN and both infinities. *)
FloatSample == {Finite(<<n>>) : n \in 0..MaxCoord} \cup {NaN, PosInf, NegInf}

GeoSample == [lat : FloatSample, lon : FloatSample]

(* Resolutions a caller asks GeoToH3 for, one below and one above the range. *)
GeoResSample == (0 - 1)..(MAX_H3_RES + 1)

(* 64-bit values by field: both high bits, the modes 0, hexagon and edge,   *)
(* two reserved values, base cells at both ends of the range, one pentagon  *)
(* and one past the range, and digits 1..MaxDigits over DigitSample with    *)
(* the digits after them all 0 or all 7.                                    *)
DigitSample == {0, 1, 2, 6, 7}

IndexResSample == (0..(MaxDigits + 1)) \cup {MAX_H3_RES}

BaseCellSample == {0, 4, NUM_BASE_CELLS - 1, NUM_BASE_CELLS}

IndexSample ==
    {[high |-> hi, mode |-> m, reserved |-> rs, res |-> r, bc |-> b,
      digits |-> [q \in 1..MAX_H3_RES |->
                     IF q <= MaxDigits THEN ds[q] ELSE t]] :
        hi \in 0..1, m \in 0..H3_UNIEDGE_MODE, rs \in 0..1,
        r \in IndexResSample, b \in BaseCellSample,
        ds \in [1..MaxDigits -> DigitSample], t \in {0, INVALID_DIGIT}}
      \cup {H3_NULL}

(***************************************************************************)
(* The bit fields of the 64-bit word (src/h3index.go:25-249).  A uint64 is *)
(* the function from bit position, 0 the lowest, to the bit; the operators *)
(* &, |, ^, << and >> of Go act on it bit by bit.                          *)
(***************************************************************************)
H3_NUM_BITS == 64
H3_MAX_OFFSET == 63
H3_MODE_OFFSET == 59
H3_BC_OFFSET == 45
H3_RES_OFFSET == 52
H3_RESERVED_OFFSET == 56
H3_PER_DIGIT_OFFSET == 3

BitPositions == 0..(H3_NUM_BITS - 1)

RECURSIVE BitOfInt(_, _)
(* bit n of an int v that is not negative *)
BitOfInt(v, n) ==
    IF v = 0 THEN 0
    ELSE IF n = 0 THEN v % 2 ELSE BitOfInt(v \div 2, n - 1)

(* uint64(v) of an int v that is not negative *)
Uint64(v) == [n \in BitPositions |-> BitOfInt(v, n)]

RECURSIVE IntOfBits(_, _)
IntOfBits(x, n) ==
    IF n > 29 THEN 0 ELSE x[n] + 2 * IntOfBits(x, n + 1)

(* int(x) of a uint64 x below 2^30 *)
IntOf(x) == IntOfBits(x, 0)

BitAnd(x, y) == [n \in BitPositions |-> x[n] * y[n]]
BitOr(x, y) == [n \in BitPositions |-> IF x[n] + y[n] > 0 THEN 1 ELSE 0]
BitNot(x) == [n \in BitPositions |-> 1 - x[n]]
ShiftLeft(x, s) == [n \in BitPositions |-> IF n >= s THEN x[n - s] ELSE 0]
ShiftRight(x, s) ==
    [n \in BitPositions |-> IF n + s < H3_NUM_BITS THEN x[n + s] ELSE 0]

H3_HIGH_BIT_MASK == ShiftLeft(Uint64(1), H3_MAX_OFFSET)
H3_HIGH_BIT_MASK_NEGATIVE == BitNot(H3_HIGH_BIT_MASK)
H3_MODE_MASK == ShiftLeft(Uint64(15), H3_MODE_OFFSET)
H3_MODE_MASK_NEGATIVE == BitNot(H3_MODE_MASK)
H3_BC_MASK == ShiftLeft(Uint64(127), H3_BC_OFFSET)
H3_BC_MASK_NEGATIVE == BitNot(H3_BC_MASK)
H3_RES_MASK == ShiftLeft(Uint64(15), H3_RES_OFFSET)
H3_RES_MASK_NEGATIVE == BitNot(H3_RES_MASK)
H3_RESERVED_MASK == ShiftLeft(Uint64(7), H3_RESERVED_OFFSET)
H3_RESERVED_MASK_NEGATIVE == BitNot(H3_RESERVED_MASK)

(* The word with no bit set, H3Index(0). *)
H3_NULL_WORD == Uint64(0)

RECURSIVE BitOfBillions(_, _, _)
(* bit n of the number hi * 10^9 + lo, where 0 <= lo < 10^9: the numbers   *)
(* of the model have 32 bits, and the literal of H3_INIT has more.         *)
BitOfBillions(hi, lo, n) ==
    IF n = 0 THEN lo % 2
    ELSE BitOfBillions(hi \div 2, (lo + (hi % 2) * 1000000000) \div 2, n - 1)

(* H3_INIT = H3Index(35184372088831) *)
H3_INIT_WORD ==
    [n \in BitPositions |-> BitOfBillions(35184, 372088831, n)]

GetHighBit(h3) == IntOf(ShiftRight(BitAnd(h3, H3_HIGH_BIT_MASK), H3_MAX_OFFSET))

SetHighBit(h3, v) ==
    BitOr(BitAnd(h3, H3_HIGH_BIT_MASK_NEGATIVE),
          ShiftLeft(Uint64(v), H3_MAX_OFFSET))

GetMode(h3) == IntOf(ShiftRight(BitAnd(h3, H3_MODE_MASK), H3_MODE_OFFSET))

(* SetMode that does not clear the field first *)
SetModeOverOld(h3, v) == BitOr(h3, ShiftLeft(Uint64(v), H3_MODE_OFFSET))

SetMode(h3, v) ==
    BitOr(BitAnd(h3, H3_MODE_MASK_NEGATIVE),
          ShiftLeft(Uint64(v), H3_MODE_OFFSET))

GetBaseCell(h3) == IntOf(ShiftRight(BitAnd(h3, H3_BC_MASK), H3_BC_OFFSET))

SetBaseCell(h3, bc) ==
    BitOr(BitAnd(h3, H3_BC_MASK_NEGATIVE),
          ShiftLeft(Uint64(bc), H3_BC_OFFSET))

GetResolution(h3) == IntOf(ShiftRight(BitAnd(h3, H3_RES_MASK), H3_RES_OFFSET))

SetResolution(h3, r) ==
    BitOr(BitAnd(h3, H3_RES_MASK_NEGATIVE),
          ShiftLeft(Uint64(r), H3_RES_OFFSET))

GetReservedBits(h3) ==
    IntOf(ShiftRight(BitAnd(h3, H3_RESERVED_MASK), H3_RESERVED_OFFSET))

SetReservedBits(h3, v) ==
    BitOr(BitAnd(h3, H3_RESERVED_MASK_NEGATIVE),
          ShiftLeft(Uint64(v), H3_RESERVED_OFFSET))

GetIndexDigit(h3, r) ==
    LET resDigit == (MAX_H3_RES - r) * H3_PER_DIGIT_OFFSET
    IN  IntOf(BitAnd(ShiftRight(h3, resDigit), Uint64(H3_DIGIT_MASK)))

SetIndexDigit(h3, r, digit) ==
    LET resDigit == (MAX_H3_RES - r) * H3_PER_DIGIT_OFFSET
    IN  BitOr(BitAnd(h3, BitNot(ShiftLeft(Uint64(H3_DIGIT_MASK), resDigit))),
              ShiftLeft(Uint64(digit), resDigit))

(* Every field of a word, read with the getters. *)
Fields(h3) ==
    [high |-> GetHighBit(h3), mode |-> GetMode(h3),
     reserved |-> GetReservedBits(h3), res |-> GetResolution(h3),
     bc |-> GetBaseCell(h3),
     digits |-> [r \in 1..MAX_H3_RES |-> GetIndexDigit(h3, r)]]

(***************************************************************************)
(* The vertex graph (src/vertexgraph.go).  A bucket's chain of nodes       *)
(* linked by next is the sequence of its nodes, head first; a node is      *)
(* known by its pointer, here the number id.                               *)
(***************************************************************************)
(* A vertex graph nobody has initialized.  allocated lists the nodes the   *)
(* graph has handed to its callers, in the order _initVertexNode made them: *)
(* the pointers a caller can pass back.                                    *)
NoGraph ==
    [buckets |-> << >>, numBuckets |-> 0, size |-> 0, res |-> 0,
     allocated |-> << >>]

NilNode == [id |-> 0]

(* initVertexGraph(graph, numBuckets, res) with numBuckets > 0 *)
initVertexGraph(numBuckets, r) ==
    [buckets |-> [index \in 1..numBuckets |-> << >>],
     numBuckets |-> numBuckets, size |-> 0, res |-> r, allocated |-> << >>]

RECURSIVE TenTo(_)
TenTo(n) == IF n = 0 THEN 1 ELSE 10 * TenTo(n - 1)

(* The vertices of the runs have whole numbers of radians, and res is at   *)
(* most 15: the product, its absolute value and the remainder are exact.   *)
_hashVertex(vertex, r, numBuckets) ==
    LET scaled == (vertex.lat + vertex.lon) * TenTo(15 - r)
    IN  (IF scaled < 0 THEN -scaled ELSE scaled) % numBuckets

(* Whole numbers differ by 0 or by at least 1, and EPSILON_RAD is below 1. *)
VertexAlmostEqual(p1, p2) == p1.lat = p2.lat /\ p1.lon = p2.lon

(* The chain of bucket index; buckets are numbered from 0 in the source. *)
ChainOf(gr, index) == gr.buckets[index + 1]

RECURSIVE AddWalk(_, _, _, _)
(* The loop of addVertexNode with currentNode the p-th node of the chain:  *)
(* the place of the node it returns, or 0 when it breaks (currentNode is   *)
(* then the last node).                                                    *)
AddWalk(chain, p, fromVtx, toVtx) ==
    IF /\ VertexAlmostEqual(chain[p].from, fromVtx)
       /\ VertexAlmostEqual(chain[p].to, toVtx)
    THEN p
    ELSE LET q == IF p < Len(chain) THEN p + 1 ELSE p
         IN  IF q = Len(chain) THEN 0 ELSE AddWalk(chain, q, fromVtx, toVtx)

(* addVertexNode(graph, fromVtx, toVtx): the graph afterwards and the node *)
(* returned.                                                               *)
addVertexNode(gr, fromVtx, toVtx) ==
    LET node == [id |-> Len(gr.allocated) + 1, from |-> fromVtx,
                 to |-> toVtx]
        index == _hashVertex(fromVtx, gr.res, gr.numBuckets)
        chain == ChainOf(gr, index)
        added(newChain) ==
            [graph |-> [gr EXCEPT !.buckets[index + 1] = newChain,
                                  !.size = @ + 1,
                                  !.allocated = Append(@, node)],
             node |-> node]
    IN  IF chain = << >> THEN added(<<node>>)
        ELSE LET hit == AddWalk(chain, 1, fromVtx, toVtx)
             IN  IF hit # 0 THEN [graph |-> gr, node |-> chain[hit]]
                 ELSE added(Append(chain, node))

RECURSIVE RemoveWalk(_, _, _)
(* The loop of removeVertexNode with currentNode the p-th node of the      *)
(* chain: the place of node behind currentNode, or 0.                      *)
RemoveWalk(chain, p, node) ==
    IF p >= Len(chain) THEN 0
    ELSE IF chain[p + 1] = node THEN p + 1
    ELSE RemoveWalk(chain, p + 1, node)

(* The chain with its p-th node unlinked. *)
Unlinked(chain, p) ==
    SubSeq(chain, 1, p - 1) \o SubSeq(chain, p + 1, Len(chain))

(* removeVertexNode that leaves graph.size as it was *)
removeKeepingSize(gr, node) ==
    LET index == _hashVertex(node.from, gr.res, gr.numBuckets)
        chain == ChainOf(gr, index)
        at == IF chain = << >> THEN 0
              ELSE IF chain[1] = node THEN 1
              ELSE RemoveWalk(chain, 1, node)
    IN  IF at # 0
        THEN [graph |-> [gr EXCEPT !.buckets[index + 1] = Unlinked(chain, at)],
              failed |-> FALSE]
        ELSE [graph |-> gr, failed |-> TRUE]

(* removeVertexNode(graph, node): the graph afterwards and the bool         *)
(* returned, true when the node was not found.                             *)
removeVertexNode(gr, node) ==
    LET index == _hashVertex(node.from, gr.res, gr.numBuckets)
        chain == ChainOf(gr, index)
        at == IF chain = << >> THEN 0
              ELSE IF chain[1] = node THEN 1
              ELSE RemoveWalk(chain, 1, node)
    IN  IF at # 0
        THEN [graph |-> [gr EXCEPT !.buckets[index + 1] = Unlinked(chain, at),
                                   !.size = @ - 1],
              failed |-> FALSE]
        ELSE [graph |-> gr, failed |-> TRUE]

RECURSIVE FindWalk(_, _, _, _)
(* The loop of findNodeForEdge from the p-th node of the chain; toVtx is   *)
(* NilNode for a nil pointer.                                              *)
FindWalk(chain, p, fromVtx, toVtx) ==
    IF p > Len(chain) THEN NilNode
    ELSE IF /\ VertexAlmostEqual(chain[p].from, fromVtx)
            /\ (toVtx = NilNode \/ VertexAlmostEqual(chain[p].to, toVtx))
    THEN chain[p]
    ELSE FindWalk(chain, p + 1, fromVtx, toVtx)

findNodeForEdge(gr, fromVtx, toVtx) ==
    FindWalk(ChainOf(gr, _hashVertex(fromVtx, gr.res, gr.numBuckets)), 1,
             fromVtx, toVtx)

(* The head of the first bucket that has one, or NilNode. *)
firstVertexNode(gr) ==
    LET heads == {index \in DOMAIN gr.buckets : gr.buckets[index] # << >>}
    IN  IF heads = {} THEN NilNode
        ELSE gr.buckets[CHOOSE index \in heads :
                            \A other \in heads : index <= other][1]

(* Every node linked into a bucket's chain. *)
StoredNodes(gr) ==
    UNION {Range(gr.buckets[index]) : index \in DOMAIN gr.buckets}

(* The number of nodes reached from the buckets by following next. *)
RECURSIVE ChainLengths(_, _)
ChainLengths(gr, index) ==
    IF index = 0 THEN 0
    ELSE Len(gr.buckets[index]) + ChainLengths(gr, index - 1)

(***************************************************************************)
(* Cells on the faces of the icosahedron: a FaceIJK is a face and ijk      *)
(* coordinates on it, [face, coord].                                       *)
(***************************************************************************)
NUM_ICOSA_FACES == 20
NUM_HEX_VERTS == 6
NUM_PENT_VERTS == 5
MAX_CELL_BNDRY_VERTS == 10

(* The quadrants of faceNeighbors and the kinds of overage. *)
IJ == 1
KI == 2
JK == 3
NO_OVERAGE == 0
FACE_EDGE == 1
NEW_FACE == 2

FaceOrientIJK(face, i, j, k, ccwRot60) ==
    [face |-> face, translate |-> [i |-> i, j |-> j, k |-> k],
     ccwRot60 |-> ccwRot60]

(* faceNeighbors[face][dir]: the face across the edge of quadrant dir, the *)
(* res 0 translation to it and the number of ccw rotations.                *)
faceNeighbors(face, dir) ==
    CASE face = 0 ->
            <<FaceOrientIJK(0, 0, 0, 0, 0),
              FaceOrientIJK(4, 2, 0, 2, 1),
              FaceOrientIJK(1, 2, 2, 0, 5),
              FaceOrientIJK(5, 0, 2, 2, 3)>>[dir + 1]
      [] face = 1 ->
            <<FaceOrientIJK(1, 0, 0, 0, 0),
              FaceOrientIJK(0, 2, 0, 2, 1),
              FaceOrientIJK(2, 2, 2, 0, 5),
              FaceOrientIJK(6, 0, 2, 2, 3)>>[dir + 1]
      [] face = 2 ->
            <<FaceOrientIJK(2, 0, 0, 0, 0),
              FaceOrientIJK(1, 2, 0, 2, 1),
              FaceOrientIJK(3, 2, 2, 0, 5),
              FaceOrientIJK(7, 0, 2, 2, 3)>>[dir + 1]
      [] face = 3 ->
            <<FaceOrientIJK(3, 0, 0, 0, 0),
              FaceOrientIJK(2, 2, 0, 2, 1),
              FaceOrientIJK(4, 2, 2, 0, 5),
              FaceOrientIJK(8, 0, 2, 2, 3)>>[dir + 1]
      [] face = 4 ->
            <<FaceOrientIJK(4, 0, 0, 0, 0),
              FaceOrientIJK(3, 2, 0, 2, 1),
              FaceOrientIJK(0, 2, 2, 0, 5),
              FaceOrientIJK(9, 0, 2, 2, 3)>>[dir + 1]
      [] face = 5 ->
            <<FaceOrientIJK(5, 0, 0, 0, 0),
              FaceOrientIJK(10, 2, 2, 0, 3),
              FaceOrientIJK(14, 2, 0, 2, 3),
              FaceOrientIJK(0, 0, 2, 2, 3)>>[dir + 1]
      [] face = 6 ->
            <<FaceOrientIJK(6, 0, 0, 0, 0),
              FaceOrientIJK(11, 2, 2, 0, 3),
              FaceOrientIJK(10, 2, 0, 2, 3),
              FaceOrientIJK(1, 0, 2, 2, 3)>>[dir + 1]
      [] face = 7 ->
            <<FaceOrientIJK(7, 0, 0, 0, 0),
              FaceOrientIJK(12, 2, 2, 0, 3),
              FaceOrientIJK(11, 2, 0, 2, 3),
              FaceOrientIJK(2, 0, 2, 2, 3)>>[dir + 1]
      [] face = 8 ->
            <<FaceOrientIJK(8, 0, 0, 0, 0),
              FaceOrientIJK(13, 2, 2, 0, 3),
              FaceOrientIJK(12, 2, 0, 2, 3),
              FaceOrientIJK(3, 0, 2, 2, 3)>>[dir + 1]
      [] face = 9 ->
            <<FaceOrientIJK(9, 0, 0, 0, 0),
              FaceOrientIJK(14, 2, 2, 0, 3),
              FaceOrientIJK(13, 2, 0, 2, 3),
              FaceOrientIJK(4, 0, 2, 2, 3)>>[dir + 1]
      [] face = 10 ->
            <<FaceOrientIJK(10, 0, 0, 0, 0),
              FaceOrientIJK(5, 2, 2, 0, 3),
              FaceOrientIJK(6, 2, 0, 2, 3),
              FaceOrientIJK(15, 0, 2, 2, 3)>>[dir + 1]
      [] face = 11 ->
            <<FaceOrientIJK(11, 0, 0, 0, 0),
              FaceOrientIJK(6, 2, 2, 0, 3),
              FaceOrientIJK(7, 2, 0, 2, 3),
              FaceOrientIJK(16, 0, 2, 2, 3)>>[dir + 1]
      [] face = 12 ->
            <<FaceOrientIJK(12, 0, 0, 0, 0),
              FaceOrientIJK(7, 2, 2, 0, 3),
              FaceOrientIJK(8, 2, 0, 2, 3),
              FaceOrientIJK(17, 0, 2, 2, 3)>>[dir + 1]
      [] face = 13 ->
            <<FaceOrientIJK(13, 0, 0, 0, 0),
              FaceOrientIJK(8, 2, 2, 0, 3),
              FaceOrientIJK(9, 2, 0, 2, 3),
              FaceOrientIJK(18, 0, 2, 2, 3)>>[dir + 1]
      [] face = 14 ->
            <<FaceOrientIJK(14, 0, 0, 0, 0),
              FaceOrientIJK(9, 2, 2, 0, 3),
              FaceOrientIJK(5, 2, 0, 2, 3),
              FaceOrientIJK(19, 0, 2, 2, 3)>>[dir + 1]
      [] face = 15 ->
            <<FaceOrientIJK(15, 0, 0, 0, 0),
              FaceOrientIJK(16, 2, 0, 2, 1),
              FaceOrientIJK(19, 2, 2, 0, 5),
              FaceOrientIJK(10, 0, 2, 2, 3)>>[dir + 1]
      [] face = 16 ->
            <<FaceOrientIJK(16, 0, 0, 0, 0),
              FaceOrientIJK(17, 2, 0, 2, 1),
              FaceOrientIJK(15, 2, 2, 0, 5),
              FaceOrientIJK(11, 0, 2, 2, 3)>>[dir + 1]
      [] face = 17 ->
            <<FaceOrientIJK(17, 0, 0, 0, 0),
              FaceOrientIJK(18, 2, 0, 2, 1),
              FaceOrientIJK(16, 2, 2, 0, 5),
              FaceOrientIJK(12, 0, 2, 2, 3)>>[dir + 1]
      [] face = 18 ->
            <<FaceOrientIJK(18, 0, 0, 0, 0),
              FaceOrientIJK(19, 2, 0, 2, 1),
              FaceOrientIJK(17, 2, 2, 0, 5),
              FaceOrientIJK(13, 0, 2, 2, 3)>>[dir + 1]
      [] face = 19 ->
            <<FaceOrientIJK(19, 0, 0, 0, 0),
              FaceOrientIJK(15, 2, 0, 2, 1),
              FaceOrientIJK(18, 2, 2, 0, 5),
              FaceOrientIJK(14, 0, 2, 2, 3)>>[dir + 1]

(* adjacentFaceDir[face][face2]: the quadrant of face in which face2 lies, *)
(* 0 for the face itself, -1 if the faces are not adjacent.                *)
adjacentFaceDir(face, face2) ==
    CASE face = 0 ->
            <<0, KI, -1, -1, IJ, JK, -1, -1, -1, -1,
              -1, -1, -1, -1, -1, -1, -1, -1, -1, -1>>[face2 + 1]
      [] face = 1 ->
            <<IJ, 0, KI, -1, -1, -1, JK, -1, -1, -1,
              -1, -1, -1, -1, -1, -1, -1, -1, -1, -1>>[face2 + 1]
      [] face = 2 ->
            <<-1, IJ, 0, KI, -1, -1, -1, JK, -1, -1,
              -1, -1, -1, -1, -1, -1, -1, -1, -1, -1>>[face2 + 1]
      [] face = 3 ->
            <<-1, -1, IJ, 0, KI, -1, -1, -1, JK, -1,
              -1, -1, -1, -1, -1, -1, -1, -1, -1, -1>>[face2 + 1]
      [] face = 4 ->
            <<KI, -1, -1, IJ, 0, -1, -1, -1, -1, JK,
              -1, -1, -1, -1, -1, -1, -1, -1, -1, -1>>[face2 + 1]
      [] face = 5 ->
            <<JK, -1, -1, -1, -1, 0, -1, -1, -1, -1,
              IJ, -1, -1, -1, KI, -1, -1, -1, -1, -1>>[face2 + 1]
      [] face = 6 ->
            <<-1, JK, -1, -1, -1, -1, 0, -1, -1, -1,
              KI, IJ, -1, -1, -1, -1, -1, -1, -1, -1>>[face2 + 1]
      [] face = 7 ->
            <<-1, -1, JK, -1, -1, -1, -1, 0, -1, -1,
              -1, KI, IJ, -1, -1, -1, -1, -1, -1, -1>>[face2 + 1]
      [] face = 8 ->
            <<-1, -1, -1, JK, -1, -1, -1, -1, 0, -1,
              -1, -1, KI, IJ, -1, -1, -1, -1, -1, -1>>[face2 + 1]
      [] face = 9 ->
            <<-1, -1, -1, -1, JK, -1, -1, -1, -1, 0,
              -1, -1, -1, KI, IJ, -1, -1, -1, -1, -1>>[face2 + 1]
      [] face = 10 ->
            <<-1, -1, -1, -1, -1, IJ, KI, -1, -1, -1,
              0, -1, -1, -1, -1, JK, -1, -1, -1, -1>>[face2 + 1]
      [] face = 11 ->
            <<-1, -1, -1, -1, -1, -1, IJ, KI, -1, -1,
              -1, 0, -1, -1, -1, -1, JK, -1, -1, -1>>[face2 + 1]
      [] face = 12 ->
            <<-1, -1, -1, -1, -1, -1, -1, IJ, KI, -1,
              -1, -1, 0, -1, -1, -1, -1, JK, -1, -1>>[face2 + 1]
      [] face = 13 ->
            <<-1, -1, -1, -1, -1, -1, -1, -1, IJ, KI,
              -1, -1, -1, 0, -1, -1, -1, -1, JK, -1>>[face2 + 1]
      [] face = 14 ->
            <<-1, -1, -1, -1, -1, KI, -1, -1, -1, IJ,
              -1, -1, -1, -1, 0, -1, -1, -1, -1, JK>>[face2 + 1]
      [] face = 15 ->
            <<-1, -1, -1, -1, -1, -1, -1, -1, -1, -1,
              JK, -1, -1, -1, -1, 0, IJ, -1, -1, KI>>[face2 + 1]
      [] face = 16 ->
            <<-1, -1, -1, -1, -1, -1, -1, -1, -1, -1,
              -1, JK, -1, -1, -1, KI, 0, IJ, -1, -1>>[face2 + 1]
      [] face = 17 ->
            <<-1, -1, -1, -1, -1, -1, -1, -1, -1, -1,
              -1, -1, JK, -1, -1, -1, KI, 0, IJ, -1>>[face2 + 1]
      [] face = 18 ->
            <<-1, -1, -1, -1, -1, -1, -1, -1, -1, -1,
              -1, -1, -1, JK, -1, -1, -1, KI, 0, IJ>>[face2 + 1]
      [] face = 19 ->
            <<-1, -1, -1, -1, -1, -1, -1, -1, -1, -1,
              -1, -1, -1, -1, JK, IJ, -1, -1, KI, 0>>[face2 + 1]

maxDimByCIIres(r) ==
    <<2, -1, 14, -1, 98, -1, 686, -1, 4802, -1, 33614, -1, 235298, -1,
      1647086, -1, 11529602>>[r + 1]

(* The table without its entries: no translation is made. *)
unitScaleDropped(r) == 0

unitScaleByCIIres(r) ==
    <<1, -1, 7, -1, 49, -1, 343, -1, 2401, -1, 16807, -1, 117649, -1,
      823543, -1, 5764801>>[r + 1]

_ijkScale(c, factor) ==
    [i |-> c.i * factor, j |-> c.j * factor, k |-> c.k * factor]

_downAp3(ijk) ==
    _ijkNormalize([i |-> 2 * ijk.i + ijk.j, j |-> 2 * ijk.j + ijk.k,
                   k |-> ijk.i + 2 * ijk.k])

_downAp3r(ijk) ==
    _ijkNormalize([i |-> 2 * ijk.i + ijk.k, j |-> ijk.i + 2 * ijk.j,
                   k |-> ijk.j + 2 * ijk.k])

IjkSum(ijk) == ijk.i + ijk.j + ijk.k

RECURSIVE RotateCcwTimes(_, _)
RotateCcwTimes(ijk, n) ==
    IF n = 0 THEN ijk ELSE RotateCcwTimes(_ijkRotate60ccw(ijk), n - 1)

(* The quadrant of a coordinate that lies past the edge of its face. *)
OverageQuadrant(ijk) ==
    IF ijk.k > 0 THEN (IF ijk.j > 0 THEN JK ELSE KI) ELSE IJ

(* The coordinate after the adjustment for the missing sequence of a      *)
(* pentagon, made in the ki quadrant only.                                 *)
PentLeading4Adjusted(ijk, maxDim, pentLeading4) ==
    IF pentLeading4 /\ OverageQuadrant(ijk) = KI
    THEN Only({_ijkAdd(_ijkRotate60cw(_ijkSub(ijk, origin)), origin) :
                  origin \in {[i |-> maxDim, j |-> 0, k |-> 0]}})
    ELSE ijk

(* The address moved to the face of fijkOrient. *)
OverFace(ijk, fijkOrient, unitScale) ==
    [face |-> fijkOrient.face,
     coord |-> _ijkNormalize(_ijkAdd(
                   RotateCcwTimes(ijk, fijkOrient.ccwRot60),
                   _ijkScale(fijkOrient.translate, unitScale)))]

(* _adjustOverageClassII(fijk, res, pentLeading4, substrate): the address  *)
(* left in *fijk and the Overage returned.                                 *)
_adjustOverageClassII(fijk, r, pentLeading4, substrate) ==
    Only({
        IF substrate /\ IjkSum(fijk.coord) = maxDim
        THEN [fijk |-> fijk, overage |-> FACE_EDGE]
        ELSE IF IjkSum(fijk.coord) > maxDim
        THEN Only({[fijk |-> moved,
                    overage |-> IF substrate /\ IjkSum(moved.coord) = maxDim
                                THEN FACE_EDGE ELSE NEW_FACE] :
                 moved \in {OverFace(
                     PentLeading4Adjusted(fijk.coord, maxDim, pentLeading4),
                     faceNeighbors(fijk.face, OverageQuadrant(fijk.coord)),
                     IF substrate THEN unitScaleByCIIres(r) * 3
                                  ELSE unitScaleByCIIres(r))}})
        ELSE [fijk |-> fijk, overage |-> NO_OVERAGE] :
            maxDim \in {IF substrate THEN maxDimByCIIres(r) * 3
                                     ELSE maxDimByCIIres(r)}})

(* The vertexes of an origin-centered cell on the substrate grid, listed   *)
(* ccw from the i-axes: of a hexagon in a Class II and in a Class III      *)
(* resolution, and of a pentagon.                                          *)
Ijk(i, j, k) == [i |-> i, j |-> j, k |-> k]

HexVertsCII ==
    <<Ijk(2, 1, 0), Ijk(1, 2, 0), Ijk(0, 2, 1), Ijk(0, 1, 2), Ijk(1, 0, 2),
      Ijk(2, 0, 1)>>

HexVertsCIII ==
    <<Ijk(5, 4, 0), Ijk(1, 5, 0), Ijk(0, 5, 4), Ijk(0, 1, 5), Ijk(4, 0, 5),
      Ijk(5, 0, 1)>>

PentVertsCII ==
    <<Ijk(2, 1, 0), Ijk(1, 2, 0), Ijk(0, 2, 1), Ijk(0, 1, 2), Ijk(1, 0, 2)>>

PentVertsCIII ==
    <<Ijk(5, 4, 0), Ijk(1, 5, 0), Ijk(0, 5, 4), Ijk(0, 1, 5), Ijk(4, 0, 5)>>

(* The center moved to the substrate grid, and the Class II resolution of  *)
(* that grid.                                                              *)
SubstrateCenter(fijk, r) ==
    IF isResClassIII(r)
    THEN [face |-> fijk.face,
          coord |-> _downAp7r(_downAp3r(_downAp3(fijk.coord))),
          res |-> r + 1]
    ELSE [face |-> fijk.face,
          coord |-> _downAp3r(_downAp3(fijk.coord)),
          res |-> r]

VertsAround(center, verts) ==
    [v \in DOMAIN verts |->
        [face |-> center.face,
         coord |-> _ijkNormalize(_ijkAdd(center.coord, verts[v]))]]

(* faceIjkToVerts(fijk, res): the vertexes, indexed from 1, and the       *)
(* resolution left in *res; _faceIjkPentToVerts likewise.                *)
faceIjkToVerts(fijk, r) ==
    Only({[fijkVerts |-> VertsAround(center,
                             IF isResClassIII(r) THEN HexVertsCIII
                                                 ELSE HexVertsCII),
           res |-> center.res] : center \in {SubstrateCenter(fijk, r)}})

_faceIjkPentToVerts(fijk, r) ==
    Only({[fijkVerts |-> VertsAround(center,
                             IF isResClassIII(r) THEN PentVertsCIII
                                                 ELSE PentVertsCII),
           res |-> center.res] : center \in {SubstrateCenter(fijk, r)}})

NoFaceIJK == [face |-> 0, coord |-> ZeroCoordIJK]

(* A GeoBoundary: numVerts and, for each vertex written, whether it is a   *)
(* vertex of the cell or the crossing of an edge of the icosahedron.       *)
NoBoundary == [numVerts |-> 0, verts |-> << >>]

NoLoop ==
    [vert |-> 0, lastFace |-> -1, lastOverage |-> NO_OVERAGE, passes |-> 0]

(***************************************************************************)
(* State.  h3Set, res: the slice and the resolution a caller passes;       *)
(* compacted, uncompacted: what Compact and Uncompact last returned;       *)
(* fijk, gb, loop: a FaceIJK, a GeoBoundary and the locals of a loop over  *)
(* them; pc: which calls have been made.                                   *)
(***************************************************************************)
VARIABLES h3Set, res, compacted, uncompacted, g, cell, h, valid, b, word, graph, fijk, gb, loop, localIjk, ret, pc

vars == <<h3Set, res, compacted, uncompacted, g, cell, h, valid, b, word, graph, fijk, gb, loop,
         localIjk, ret, pc>>

NoResult == [err |-> "none", cells |-> << >>]

NoGeo == [lat |-> Finite(<< >>), lon |-> Finite(<< >>)]

(* What a call on cells returns: an index, a list of indexes, an int, an    *)
(* ijk, a bool, whether the call panicked, and the kind of failure the     *)
(* return statement taken stands for; a call sets the entries it returns.  *)
NoRet ==
    [h |-> H3_NULL, cells |-> << >>, n |-> 0,
     ijk |-> [i |-> 0, j |-> 0, k |-> 0], ok |-> FALSE, panic |-> FALSE,
     class |-> "none"]

(* A run of Compact and Uncompact: the variables of the cell runs stay put. *)
Init ==
    /\ h3Set \in Inputs
    /\ fijk = NoFaceIJK
    /\ gb = NoBoundary
    /\ loop = NoLoop
    /\ res \in {r \in TargetResSample :
                    MaxUncompactSize(h3Set, r).size <= MaxCells}
    /\ compacted = NoResult
    /\ uncompacted = NoResult
    /\ g = NoGeo
    /\ cell = H3_NULL
    /\ h = H3_NULL
    /\ valid = FALSE
    /\ b = H3_NULL
    /\ word = H3_NULL_WORD
    /\ graph = NoGraph
    /\ localIjk = NoRet.ijk
    /\ ret = NoRet
    /\ pc = "input"

(* compacted, err := Compact(h3Set) *)
DoCompact ==
    /\ pc = "input"
    /\ compacted' \in Compact(h3Set)
    /\ pc' = "compacted"
    /\ UNCHANGED <<fijk, gb, loop, h3Set, res, uncompacted, g, cell, h, valid, b, word, graph, localIjk, ret>>

(* uncompacted, err := Uncompact(h3Set, res) *)
DoUncompact ==
    /\ pc = "input"
    /\ uncompacted' = Uncompact(h3Set, res)
    /\ pc' = "uncompacted"
    /\ UNCHANGED <<fijk, gb, loop, h3Set, res, compacted, g, cell, h, valid, b, word, graph, localIjk, ret>>

(* Uncompact applied to what Compact returned: Uncompact(Compact(h3Set), res) *)
DoUncompactCompacted ==
    /\ pc = "compacted"
    /\ compacted.err = ErrNil
    /\ uncompacted' = Uncompact(BagToSeq(compacted.cells), res)
    /\ pc' = "compacted-uncompacted"
    /\ UNCHANGED <<fijk, gb, loop, h3Set, res, compacted, g, cell, h, valid, b, word, graph, localIjk, ret>>

(* Compact applied to what Uncompact returned: Compact(Uncompact(h3Set, res)) *)
DoCompactUncompacted ==
    /\ pc = "uncompacted"
    /\ uncompacted.err = ErrNil
    /\ compacted' \in Compact(uncompacted.cells)
    /\ pc' = "uncompacted-compacted"
    /\ UNCHANGED <<fijk, gb, loop, h3Set, res, uncompacted, g, cell, h, valid, b, word, graph, localIjk, ret>>

Next ==
    \/ DoCompact
    \/ DoUncompact
    \/ DoUncompactCompacted
    \/ DoCompactUncompacted

Spec == Init /\ [][Next]_vars

(***************************************************************************)
(* Runs on one cell or one coordinate: a caller either encodes a           *)
(* coordinate (g, res) with GeoToH3, or validates an index with IsValid    *)
(* and, when it is valid, decodes it with H3ToGeo and encodes the centre   *)
(* again at the resolution of the cell.                                    *)
(***************************************************************************)
InitCell ==
    /\ h3Set = << >>
    /\ fijk = NoFaceIJK
    /\ gb = NoBoundary
    /\ loop = NoLoop
    /\ compacted = NoResult
    /\ uncompacted = NoResult
    /\ h = H3_NULL
    /\ valid = FALSE
    /\ b = H3_NULL
    /\ word = H3_NULL_WORD
    /\ graph = NoGraph
    /\ localIjk = NoRet.ijk
    /\ ret = NoRet
    /\ \/ /\ pc = "geo"
          /\ g \in GeoSample
          /\ res \in GeoResSample
          /\ cell = H3_NULL
       \/ /\ pc = "index"
          /\ cell \in IndexSample
          /\ g = NoGeo
          /\ res = 0

(* h = GeoToH3(g, res) *)
DoGeoToH3 ==
    /\ pc = "geo"
    /\ h' \in GeoToH3(g, res)
    /\ pc' = "encoded"
    /\ UNCHANGED <<fijk, gb, loop, h3Set, res, compacted, uncompacted, g, cell, valid, b, word, graph, localIjk, ret>>

(* valid = IsValid(cell) *)
DoIsValid ==
    /\ pc = "index"
    /\ valid' = IsValid(cell)
    /\ pc' = "checked"
    /\ UNCHANGED <<fijk, gb, loop, h3Set, res, compacted, uncompacted, g, cell, h, b, word, graph, localIjk, ret>>

(* g = H3ToGeo(cell), for a cell the caller has found valid *)
DoH3ToGeo ==
    /\ pc = "checked"
    /\ valid
    /\ g' = H3ToGeo(cell)
    /\ res' = H3_GET_RESOLUTION(cell)
    /\ pc' = "decoded"
    /\ UNCHANGED <<fijk, gb, loop, h3Set, compacted, uncompacted, cell, h, valid, b, word, graph, localIjk, ret>>

(* h = GeoToH3(H3ToGeo(cell), res of cell) *)
DoGeoToH3OfCenter ==
    /\ pc = "decoded"
    /\ h' \in GeoToH3(g, res)
    /\ pc' = "reencoded"
    /\ UNCHANGED <<fijk, gb, loop, h3Set, res, compacted, uncompacted, g, cell, valid, b, word, graph, localIjk, ret>>

NextCell ==
    \/ DoGeoToH3
    \/ DoIsValid
    \/ DoH3ToGeo
    \/ DoGeoToH3OfCenter

SpecCell == InitCell /\ [][NextCell]_vars

(***************************************************************************)
(* Properties of Compact and Uncompact.                                    *)
(***************************************************************************)
Distinct(s) == \A i, j \in DOMAIN s : i # j => s[i] # s[j]

AllValid(s) == \A i \in DOMAIN s : IsValid(s[i])

SameResolution(s) ==
    \A i \in DOMAIN s : H3_GET_RESOLUTION(s[i]) = H3_GET_RESOLUTION(s[1])

(* The valid cells one resolution below P whose parent is P. *)
DirectChildren(P) ==
    {c \in {makeDirectChild(P, d) : d \in 0..(NUM_DIGITS - 1)} : IsValid(c)}

(* The parent of the first cell of the input. *)
FirstParent == H3ToParent(h3Set[1], H3_GET_RESOLUTION(h3Set[1]) - 1)

(* C4: for distinct valid cells of one resolution r, Compact succeeds and   *)
(* Uncompact(Compact(S), r) holds exactly the cells of S.                   *)
C4_UncompactOfCompactIsInput ==
    (/\ pc \in {"compacted", "compacted-uncompacted"}
     /\ Len(h3Set) > 0 /\ Distinct(h3Set) /\ AllValid(h3Set)
     /\ SameResolution(h3Set) /\ res = H3_GET_RESOLUTION(h3Set[1]))
    => /\ compacted.err = ErrNil
       /\ pc = "compacted-uncompacted" =>
             /\ uncompacted.err = ErrNil
             /\ SeqToBag(uncompacted.cells) = SeqToBag(h3Set)

(* A compacted set: distinct valid cells, none inside another, no parent    *)
(* with all of its children present.                                        *)
IsCompactedSet(s) ==
    /\ Len(s) > 0 /\ Distinct(s) /\ AllValid(s)
    /\ \A i, j \in DOMAIN s :
           i # j => H3ToParent(s[j], H3_GET_RESOLUTION(s[i])) # s[i]
    /\ \A i \in DOMAIN s :
           H3_GET_RESOLUTION(s[i]) > 0 =>
               ~(DirectChildren(H3ToParent(s[i], H3_GET_RESOLUTION(s[i]) - 1))
                     \subseteq Range(s))

(* C5: for a compacted set S and a resolution r no coarser than any cell of *)
(* S, Compact(Uncompact(S, r)) succeeds and holds exactly the cells of S.   *)
C5_CompactOfUncompactIsInput ==
    (/\ pc = "uncompacted-compacted"
     /\ IsCompactedSet(h3Set)
     /\ \A i \in DOMAIN h3Set : H3_GET_RESOLUTION(h3Set[i]) <= res)
    => /\ compacted.err = ErrNil
       /\ compacted.cells = SeqToBag(h3Set)

(* The input is exactly the complete set of direct children of one valid    *)
(* cell, in some order.                                                     *)
InputIsAllChildrenOfOne ==
    /\ Len(h3Set) > 0
    /\ H3_GET_RESOLUTION(h3Set[1]) >= 1
    /\ IsValid(FirstParent)
    /\ Distinct(h3Set)
    /\ Range(h3Set) = DirectChildren(FirstParent)

(* C6: Compact of exactly the direct children of a valid cell P (7 of a     *)
(* hexagon, 6 of a pentagon, any order) returns [P] and no error.           *)
C6_CompactOfAllChildrenIsParent ==
    (pc = "compacted" /\ InputIsAllChildrenOfOne)
    => /\ compacted.err = ErrNil
       /\ compacted.cells = SetToBag({FirstParent})

C6_Witness ==
    /\ pc = "compacted" /\ InputIsAllChildrenOfOne
    /\ Len(h3Set) = 6
    /\ H3_GET_RESOLUTION(FirstParent) >= 1
    /\ compacted.cells = SetToBag({FirstParent})

(* C7: an input of valid cells that holds one of them more than once makes  *)
(* Compact return ErrCompactDuplicate and no cells.                         *)
C7_DuplicateIsReported ==
    (pc = "compacted" /\ AllValid(h3Set) /\ ~Distinct(h3Set))
    => /\ compacted.err = ErrCompactDuplicate
       /\ compacted.cells = EmptyBag

(* C8: an input of valid cells that do not all have one resolution makes    *)
(* Compact report an error that is not the duplicate error.                 *)
C8_ResolutionMismatchIsReported ==
    (pc = "compacted" /\ Len(h3Set) > 0 /\ AllValid(h3Set)
        /\ ~SameResolution(h3Set))
    => /\ compacted.err # ErrNil
       /\ compacted.err # ErrCompactDuplicate

(* The slice the last Uncompact call was given. *)
UncompactInput ==
    IF pc = "uncompacted" THEN h3Set ELSE BagToSeq(compacted.cells)

ResExceeded(s, r) ==
    \E i \in DOMAIN s :
        /\ s[i] # H3_NULL
        /\ (H3_GET_RESOLUTION(s[i]) > r \/ r > MAX_H3_RES)

(* C9: Uncompact(S, res) returns ErrUncompactResExceeded and no cells       *)
(* exactly when a non-null cell of S is finer than res (or res is above 15  *)
(* and S has a non-null cell); otherwise it returns no error, leaves out    *)
(* the H3_NULL entries, and every returned cell has resolution res.         *)
C9_UncompactErrorIffResExceeded ==
    pc \in {"uncompacted", "compacted-uncompacted"}
    => IF ResExceeded(UncompactInput, res)
       THEN uncompacted = [err |-> ErrUncompactResExceeded, cells |-> << >>]
       ELSE /\ uncompacted.err = ErrNil
            /\ \A i \in DOMAIN uncompacted.cells :
                   /\ uncompacted.cells[i] # H3_NULL
                   /\ H3_GET_RESOLUTION(uncompacted.cells[i]) = res
            /\ \A i \in DOMAIN UncompactInput :
                   (/\ UncompactInput[i] # H3_NULL
                    /\ H3_GET_RESOLUTION(UncompactInput[i]) = res)
                   => UncompactInput[i] \in Range(uncompacted.cells)

C9_Witness ==
    /\ pc = "uncompacted"
    /\ H3_NULL \in Range(h3Set)
    /\ ResExceeded(h3Set, res)
    /\ res <= MAX_H3_RES
    /\ uncompacted.err = ErrUncompactResExceeded

(***************************************************************************)
(* Properties of GeoToH3, H3ToGeo and IsValid.                             *)
(***************************************************************************)
InRange(r) == r >= 0 /\ r <= MAX_H3_RES

(* C1: for a finite latitude and longitude and a resolution in 0..15,      *)
(* GeoToH3 returns a cell that is not H3_NULL and that IsValid accepts.    *)
C1_GeoToH3OfFiniteIsValid ==
    (pc = "encoded" /\ IsFinite(g.lat) /\ IsFinite(g.lon) /\ InRange(res))
        => (h # H3_NULL /\ IsValid(h))

(* C2: for a valid cell, GeoToH3 of the centre H3ToGeo gives, taken at the *)
(* resolution of the cell, is the cell again.                              *)
C2_GeoToH3OfH3ToGeoIsCell ==
    (pc = "reencoded" /\ IsValid(cell)) => h = cell

(* The first digit of 1..res that is not 0 is K. *)
LeadsWithK(h3) ==
    \E r \in 1..H3_GET_RESOLUTION(h3) :
        /\ H3_GET_INDEX_DIGIT(h3, r) = K_AXES_DIGIT
        /\ \A q \in 1..(r - 1) : H3_GET_INDEX_DIGIT(h3, q) = CENTER_DIGIT

ValidLayout(h3) ==
    /\ H3_GET_HIGH_BIT(h3) = 0
    /\ H3_GET_MODE(h3) = H3_HEXAGON_MODE
    /\ H3_GET_RESERVED_BITS(h3) = 0
    /\ H3_GET_BASE_CELL(h3) \in 0..(NUM_BASE_CELLS - 1)
    /\ \A r \in 1..H3_GET_RESOLUTION(h3) :
           H3_GET_INDEX_DIGIT(h3, r) \in 0..(NUM_DIGITS - 1)
    /\ \A r \in (H3_GET_RESOLUTION(h3) + 1)..MAX_H3_RES :
           H3_GET_INDEX_DIGIT(h3, r) = INVALID_DIGIT
    /\ _isBaseCellPentagon(H3_GET_BASE_CELL(h3)) => ~LeadsWithK(h3)

(* C3: IsValid accepts an index exactly when its high bit is 0, its mode   *)
(* is the hexagon mode, its reserved bits are 0, its base cell is in       *)
(* 0..121, its digits 1..res are in 0..6, its digits above res are 7 and,  *)
(* on a pentagon base cell, its first digit that is not 0 is not K; it     *)
(* rejects H3_NULL and every index in edge mode.                           *)
C3_IsValidIffLayout ==
    pc = "checked" =>
        /\ valid <=> ValidLayout(cell)
        /\ (cell = H3_NULL \/ H3_GET_MODE(cell) = H3_UNIEDGE_MODE) => ~valid

(* An index of a pentagon base cell that only the K test rejects. *)
C3_Witness ==
    /\ pc = "checked"
    /\ ~valid
    /\ LeadsWithK(cell)
    /\ IsValid(H3_SET_BASE_CELL(cell, 0))

(* C10: GeoToH3 returns H3_NULL when res is outside 0..15 or when the      *)
(* latitude or the longitude is not finite, both being infinite included.  *)
C10_GeoToH3RejectsBadInput ==
    (pc = "encoded"
        /\ (~InRange(res) \/ ~IsFinite(g.lat) \/ ~IsFinite(g.lon)))
        => h = H3_NULL

(***************************************************************************)
(* Runs on the hierarchy and the edges of one cell: a caller holding a     *)
(* valid cell asks for its parent, its children or its centre child at     *)
(* resolution res, or for its edges.                                       *)
(***************************************************************************)
MaxDepth == 2
MaxChildDepth == 2

HierBaseCells == {0, 4, NUM_BASE_CELLS - 1}

(* The valid cells of HierBaseCells down to resolution MaxDepth. *)
CellSample ==
    {c \in {Cell(bc, ds) : bc \in HierBaseCells,
                          ds \in UNION {[1..n -> 0..(NUM_DIGITS - 1)] :
                                           n \in 0..MaxDepth}} : IsValid(c)}

(* Resolutions asked of ToParent and ToCenterChild. *)
HierResSample == ((0 - 1)..(MaxDepth + MaxChildDepth)) \cup {MAX_H3_RES, MAX_H3_RES + 1}

(* Resolutions asked of ToChildren of c: at most MaxChildDepth below c. *)
ChildResSample(c) ==
    ((0 - 1)..(H3_GET_RESOLUTION(c) + MaxChildDepth)) \cup {MAX_H3_RES + 1}

InitHier ==
    /\ h3Set = << >>
    /\ fijk = NoFaceIJK
    /\ gb = NoBoundary
    /\ loop = NoLoop
    /\ compacted = NoResult
    /\ uncompacted = NoResult
    /\ g = NoGeo
    /\ h = H3_NULL
    /\ valid = FALSE
    /\ b = H3_NULL
    /\ word = H3_NULL_WORD
    /\ graph = NoGraph
    /\ localIjk = NoRet.ijk
    /\ ret = NoRet
    /\ cell \in CellSample
    /\ \/ pc = "ToParent" /\ res \in HierResSample
       \/ pc = "ToCenterChild" /\ res \in HierResSample
       \/ pc = "ToChildren" /\ res \in ChildResSample(cell)
       \/ pc = "EdgesFromHexagon" /\ res = 0

HierUnchanged ==
    UNCHANGED <<fijk, gb, loop, h3Set, res, compacted, uncompacted, g, cell, h, valid, b, word, graph, localIjk>>

(* cell.ToParent(res) *)
DoToParent ==
    /\ pc = "ToParent"
    /\ ret' = [NoRet EXCEPT !.h = ToParent(cell, res)]
    /\ pc' = "ToParent returned"
    /\ HierUnchanged

(* cell.ToCenterChild(res) *)
DoToCenterChild ==
    /\ pc = "ToCenterChild"
    /\ ret' = [NoRet EXCEPT !.h = ToCenterChild(cell, res)]
    /\ pc' = "ToCenterChild returned"
    /\ HierUnchanged

(* cell.ToChildren(res); n is the capacity MaxH3ToChildrenSize gave *)
DoToChildren ==
    /\ pc = "ToChildren"
    /\ ret' = [NoRet EXCEPT !.cells = ToChildren(cell, res),
                            !.n = MaxH3ToChildrenSize(cell, res)]
    /\ pc' = "ToChildren returned"
    /\ HierUnchanged

(* GetH3UnidirectionalEdgesFromHexagon(cell, &edges) *)
DoEdgesFromHexagon ==
    /\ pc = "EdgesFromHexagon"
    /\ ret' = [NoRet EXCEPT !.cells = GetH3UnidirectionalEdgesFromHexagon(cell)]
    /\ pc' = "EdgesFromHexagon returned"
    /\ HierUnchanged

NextHier ==
    \/ DoToParent
    \/ DoToCenterChild
    \/ DoToChildren
    \/ DoEdgesFromHexagon

SpecHier == InitHier /\ [][NextHier]_vars

(***************************************************************************)
(* Properties of the hierarchy and the edges.                              *)
(***************************************************************************)
(* A cell of a pentagon base cell all of whose digits are 0. *)
IsPentagonCell(x) ==
    /\ _isBaseCellPentagon(H3_GET_BASE_CELL(x))
    /\ \A r \in 1..H3_GET_RESOLUTION(x) : H3_GET_INDEX_DIGIT(x, r) = CENTER_DIGIT

(* C11: for a valid cell of resolution c and 0 <= p <= c, ToParent(p) is a  *)
(* valid cell of resolution p with the base cell and the digits 1..p of    *)
(* the cell and 7 in the digits p+1..15, so the parent at p of the parent  *)
(* at q is the parent at p; for p > c or p < 0 it is H3_NULL.              *)
C11_ToParentKeepsPrefix ==
    (pc = "ToParent returned" /\ IsValid(cell)) =>
        IF res >= 0 /\ res <= H3_GET_RESOLUTION(cell)
        THEN /\ IsValid(ret.h)
             /\ H3_GET_RESOLUTION(ret.h) = res
             /\ H3_GET_BASE_CELL(ret.h) = H3_GET_BASE_CELL(cell)
             /\ \A r \in 1..res :
                    H3_GET_INDEX_DIGIT(ret.h, r) = H3_GET_INDEX_DIGIT(cell, r)
             /\ \A r \in (res + 1)..MAX_H3_RES :
                    H3_GET_INDEX_DIGIT(ret.h, r) = INVALID_DIGIT
             /\ \A q \in res..H3_GET_RESOLUTION(cell) :
                    ToParent(ToParent(cell, q), res) = ret.h
        ELSE ret.h = H3_NULL

C11_Witness ==
    /\ pc = "ToParent returned"
    /\ res >= 1 /\ res < H3_GET_RESOLUTION(cell)
    /\ ret.h # H3_NULL /\ ret.h # cell

(* The indexes of resolution c that ToParent takes to x, x of resolution   *)
(* p <= c being valid: x with its digits p+1..c set to digits in 0..6.     *)
Descendants(x, c) ==
    {[x EXCEPT !.res = c,
               !.digits = [i \in 1..MAX_H3_RES |->
                   IF i > H3_GET_RESOLUTION(x) /\ i <= c
                   THEN ds[i - H3_GET_RESOLUTION(x)] ELSE x.digits[i]]] :
        ds \in [1..(c - H3_GET_RESOLUTION(x)) -> 0..(NUM_DIGITS - 1)]}

(* What C12 says of every cell and of the cells that are not pentagons. *)
ChildrenAreTheDescendants ==
    IF res >= H3_GET_RESOLUTION(cell) /\ res <= MAX_H3_RES
    THEN /\ Distinct(ret.cells)
         /\ Range(ret.cells) =
                {x \in Descendants(cell, res) :
                    IsValid(x) /\ ToParent(x, H3_GET_RESOLUTION(cell)) = cell}
         /\ ~IsPentagonCell(cell) =>
                /\ Len(ret.cells) = _ipow(7, res - H3_GET_RESOLUTION(cell))
                /\ Len(ret.cells) = ret.n
    ELSE ret.cells = << >>

C13_CenterChildIsCentered ==
    (pc = "ToCenterChild returned" /\ IsValid(cell)) =>
        IF res >= H3_GET_RESOLUTION(cell) /\ res <= MAX_H3_RES
        THEN /\ IsValid(ret.h)
             /\ H3_GET_RESOLUTION(ret.h) = res
             /\ \A r \in (H3_GET_RESOLUTION(cell) + 1)..res :
                    H3_GET_INDEX_DIGIT(ret.h, r) = CENTER_DIGIT
             /\ IsPentagonCell(ret.h) <=> IsPentagonCell(cell)
             /\ H3IsPentagon(ret.h) <=> H3IsPentagon(cell)
             /\ ToParent(ret.h, H3_GET_RESOLUTION(cell)) = cell
        ELSE ret.h = H3_NULL

C13_Witness ==
    /\ pc = "ToCenterChild returned"
    /\ H3_GET_RESOLUTION(cell) >= 1
    /\ res > H3_GET_RESOLUTION(cell) + 1 /\ res <= MAX_H3_RES
    /\ ret.h # H3_NULL /\ ret.h # cell

(* C14: GetH3UnidirectionalEdgesFromHexagon of a valid cell fills 6 slots:  *)
(* all 6 valid edges for a hexagon; slot 0 H3_NULL and 5 valid edges for a *)
(* pentagon; every slot i that is not H3_NULL has direction i+1 in its     *)
(* reserved bits and the cell as its origin.                               *)
C14_EdgesFromCell ==
    (pc = "EdgesFromHexagon returned" /\ IsValid(cell)) =>
        /\ Len(ret.cells) = 6
        /\ ~IsPentagonCell(cell) =>
               \A i \in 0..5 : H3UnidirectionalEdgeIsValid(ret.cells[i + 1])
        /\ IsPentagonCell(cell) =>
               /\ ret.cells[1] = H3_NULL
               /\ \A i \in 1..5 : H3UnidirectionalEdgeIsValid(ret.cells[i + 1])
        /\ \A i \in 0..5 :
               ret.cells[i + 1] # H3_NULL =>
                   /\ H3_GET_RESERVED_BITS(ret.cells[i + 1]) = i + 1
                   /\ GetOriginH3IndexFromUnidirectionalEdge(ret.cells[i + 1])
                          = cell

C14_Witness ==
    /\ pc = "EdgesFromHexagon returned"
    /\ IsPentagonCell(cell) /\ H3_GET_RESOLUTION(cell) >= 1
    /\ ret.cells[1] = H3_NULL
    /\ H3UnidirectionalEdgeIsValid(ret.cells[2])

(***************************************************************************)
(* Runs on local ijk coordinates: a caller holding an origin asks for the  *)
(* local ijk of an index, for the index at a local ijk, for the grid       *)
(* distance to an index or for the grid line to it.                        *)
(***************************************************************************)
MaxLocalDepth == 2
MaxIjk == 5

(* Origins: the cells of LocalBaseCells with digits CENTER and IK. *)
OriginSample ==
    {Cell(bc, ds) : bc \in LocalBaseCells,
                    ds \in UNION {[1..n -> {0, 5}] : n \in 0..MaxLocalDepth}}

(* Indexes asked about from an origin: the valid cells of its base cell    *)
(* and resolution, the centre cell of its base cell one resolution off,    *)
(* and the centre cells of the other base cell at its resolution.          *)
LocalIndexSample(origin) ==
    LET r == H3_GET_RESOLUTION(origin)
        Zeros(n) == [x \in 1..n |-> CENTER_DIGIT]
    IN  {c \in {Cell(H3_GET_BASE_CELL(origin), ds) :
                   ds \in [1..r -> 0..(NUM_DIGITS - 1)]} : IsValid(c)}
        \cup {Cell(H3_GET_BASE_CELL(origin), Zeros(r + 1))}
        \cup {Cell(bc, Zeros(r)) : bc \in LocalBaseCells}

IjkSample == [i : 0..MaxIjk, j : 0..MaxIjk, k : 0..MaxIjk]

(* H3Line(start, end) reads no entry of the base cell tables but those     *)
(* given above.                                                            *)
LineInLocalTables(start, end) ==
    H3Distance(start, end) >= 0 =>
        \A n \in DOMAIN LineIjks(start, end) :
            InLocalTables(start, LineIjks(start, end)[n])

InitLocal ==
    /\ h3Set = << >>
    /\ fijk = NoFaceIJK
    /\ gb = NoBoundary
    /\ loop = NoLoop
    /\ res = 0
    /\ compacted = NoResult
    /\ uncompacted = NoResult
    /\ g = NoGeo
    /\ h = H3_NULL
    /\ valid = FALSE
    /\ word = H3_NULL_WORD
    /\ graph = NoGraph
    /\ ret = NoRet
    /\ cell \in OriginSample
    /\ \/ /\ pc \in {"h3ToLocalIjk", "H3Distance"}
          /\ b \in LocalIndexSample(cell)
          /\ localIjk = ZeroCoordIJK
       \/ /\ pc = "H3Line"
          /\ b \in {x \in LocalIndexSample(cell) : LineInLocalTables(cell, x)}
          /\ localIjk = ZeroCoordIJK
       \/ /\ pc = "localIjkToH3"
          /\ b = H3_NULL
          /\ localIjk \in {c \in IjkSample : InLocalTables(cell, c)}

LocalUnchanged ==
    UNCHANGED <<fijk, gb, loop, h3Set, res, compacted, uncompacted, g, cell, h, valid, b, word, graph>>

(* h3ToLocalIjk(cell, b, &ijk) *)
DoH3ToLocalIjk ==
    /\ pc = "h3ToLocalIjk"
    /\ ret' = Only({[NoRet EXCEPT !.n = r.code, !.ijk = r.ijk,
                                  !.class = r.class] :
                       r \in {h3ToLocalIjk(cell, b)}})
    /\ pc' = "h3ToLocalIjk returned"
    /\ UNCHANGED localIjk
    /\ LocalUnchanged

(* localIjkToH3(cell, &ijk, &out) *)
DoLocalIjkToH3 ==
    /\ pc = "localIjkToH3"
    /\ ret' = Only({[NoRet EXCEPT !.n = r.code, !.h = r.out,
                                  !.class = r.class, !.panic = r.panic] :
                       r \in {localIjkToH3(cell, localIjk)}})
    /\ pc' = "localIjkToH3 returned"
    /\ UNCHANGED localIjk
    /\ LocalUnchanged

(* localIjkToH3(cell, &ijk, &out) with the ijk h3ToLocalIjk(cell, b, &ijk) *)
(* gave when it returned 0                                                 *)
DoLocalIjkToH3OfLocalIjk ==
    /\ pc = "h3ToLocalIjk returned"
    /\ ret.n = 0
    /\ InLocalTables(cell, ret.ijk)
    /\ localIjk' = ret.ijk
    /\ ret' = Only({[NoRet EXCEPT !.n = r.code, !.h = r.out,
                                  !.class = r.class, !.panic = r.panic] :
                       r \in {localIjkToH3(cell, ret.ijk)}})
    /\ pc' = "localIjkToH3 of h3ToLocalIjk returned"
    /\ LocalUnchanged

(* H3Distance(cell, b) *)
DoH3Distance ==
    /\ pc = "H3Distance"
    /\ ret' = [NoRet EXCEPT !.n = H3Distance(cell, b)]
    /\ pc' = "H3Distance returned"
    /\ UNCHANGED localIjk
    /\ LocalUnchanged

(* H3Line(cell, b, &out), out of length H3LineSize(cell, b) *)
DoH3Line ==
    /\ pc = "H3Line"
    /\ ret' = Only({[NoRet EXCEPT !.n = r.code, !.cells = r.out,
                                  !.panic = r.panic] :
                       r \in {H3Line(cell, b)}})
    /\ pc' = "H3Line returned"
    /\ UNCHANGED localIjk
    /\ LocalUnchanged

NextLocal ==
    \/ DoH3ToLocalIjk
    \/ DoLocalIjkToH3
    \/ DoLocalIjkToH3OfLocalIjk
    \/ DoH3Distance
    \/ DoH3Line

SpecLocal == InitLocal /\ [][NextLocal]_vars

(***************************************************************************)
(* Properties of the local ijk coordinates, the distance and the line.     *)
(***************************************************************************)
(* C16: H3Distance(A, A) = 0 for a valid cell A; for valid cells A and B    *)
(* of one resolution with H3Distance(A, B) and H3Distance(B, A) both not   *)
(* negative the two are equal; H3Distance is negative when the unfolding   *)
(* fails.                                                                  *)
C16_DistanceIsSymmetric ==
    (pc = "H3Distance returned" /\ IsValid(cell) /\ IsValid(b)) =>
        /\ b = cell => ret.n = 0
        /\ (H3_GET_RESOLUTION(cell) = H3_GET_RESOLUTION(b)
               /\ ret.n >= 0 /\ H3Distance(b, cell) >= 0)
               => ret.n = H3Distance(b, cell)
        /\ h3ToLocalIjk(cell, b).code # 0 => ret.n < 0

C16_Witness ==
    /\ pc = "H3Distance returned"
    /\ IsValid(cell) /\ IsValid(b)
    /\ ret.n >= 2
    /\ H3Distance(b, cell) = ret.n

(* Two valid cells of one base cell and resolution lie side by side. *)
Adjacent(x, y) ==
    /\ IsValid(x) /\ IsValid(y)
    /\ H3_GET_BASE_CELL(x) = H3_GET_BASE_CELL(y)
    /\ H3_GET_RESOLUTION(x) = H3_GET_RESOLUTION(y)
    /\ ijkDistance(_h3ToFaceIjkWithInitializedFijk(x, ZeroCoordIJK),
                   _h3ToFaceIjkWithInitializedFijk(y, ZeroCoordIJK)) = 1

(* C17: when H3Distance(A, B) = d >= 0, H3Line(A, B) returns 0 and writes   *)
(* d + 1 cells, the first A and the last B, each of them a valid cell and  *)
(* each a neighbor of the one before it.                                   *)
C17_LineJoinsTheCells ==
    (pc = "H3Line returned" /\ H3Distance(cell, b) >= 0) =>
        /\ ~ret.panic /\ ret.n = 0
        /\ Len(ret.cells) = H3Distance(cell, b) + 1
        /\ ret.cells[1] = cell
        /\ ret.cells[Len(ret.cells)] = b
        /\ \A n \in 1..Len(ret.cells) : IsValid(ret.cells[n])
        /\ \A n \in 2..Len(ret.cells) : Adjacent(ret.cells[n - 1], ret.cells[n])

(* C18: for an origin O and a cell H of the base cell of O, not a pentagon, *)
(* at a resolution in 1..15, when h3ToLocalIjk(O, H, &ijk) returns 0 then  *)
(* localIjkToH3(O, &ijk, &out) returns 0 and out = H.                      *)
C18_LocalIjkToH3Inverts ==
    (/\ pc = "localIjkToH3 of h3ToLocalIjk returned"
     /\ H3_GET_BASE_CELL(b) = H3_GET_BASE_CELL(cell)
     /\ ~_isBaseCellPentagon(H3_GET_BASE_CELL(cell))
     /\ H3_GET_RESOLUTION(cell) >= 1)
        => (~ret.panic /\ ret.n = 0 /\ ret.h = b)

(* The codes and kinds of failure of localIjkToH3 at resolution 0. *)
LocalIjkToH3Failures ==
    UNION {{[code |-> r.code, class |-> r.class] :
               r \in {localIjkToH3(o, c) :
                         c \in {x \in IjkSample : InLocalTables(o, x)}}} :
           o \in {Cell(bc, << >>) : bc \in LocalBaseCells}}

(* C19: h3ToLocalIjk and localIjkToH3 return 0 on success only and a        *)
(* positive code on failure, and within a function no two kinds of         *)
(* failure have one code.                                                  *)
C19_CodeTellsTheFailure ==
    /\ pc \in {"h3ToLocalIjk returned", "localIjkToH3 returned"} =>
           /\ ~ret.panic
           /\ ret.n = 0 <=> ret.class = "none"
           /\ ret.n >= 0
    /\ pc = "h3ToLocalIjk returned" =>
           /\ ret.n = 1 <=> ret.class = "resolution mismatch"
           /\ ret.n = 2 <=> ret.class = "base cells not neighbors"
           /\ ret.n \in 3..5 <=> ret.class = "pentagon unfolding refused"
    /\ pc = "localIjkToH3 returned" =>
           \A f \in LocalIjkToH3Failures :
               f.code = ret.n => f.class = ret.class

(***************************************************************************)
(* Neighbors and edges: H3IndexesAreNeighbors and GetH3UnidirectionalEdge  *)
(* of two indexes, then GetH3IndexesFromUnidirectionalEdge of the edge.    *)
(***************************************************************************)
MaxNeighborDepth == 2

(* The digits of the sampled indexes above their last digit. *)
NeighborPrefix == {CENTER_DIGIT, 3}

(* Indexes in hexagon mode of base cells 4 and 121: every last digit,     *)
(* INVALID_DIGIT too.                                                      *)
NeighborCells ==
    {Cell(bc, ds) :
        bc \in LocalBaseCells,
        ds \in UNION {{ds \in [1..n -> 0..INVALID_DIGIT] :
                          \A r \in 1..(n - 1) : ds[r] \in NeighborPrefix} :
                      n \in 0..MaxNeighborDepth}}

NeighborSample ==
    NeighborCells
    \cup {H3_SET_RESERVED_BITS(H3_SET_MODE(c, H3_UNIEDGE_MODE), r) :
             c \in {x \in NeighborCells : \A n \in 1..H3_GET_RESOLUTION(x) :
                                              x.digits[n] = CENTER_DIGIT},
             r \in {CENTER_DIGIT, J_AXES_DIGIT}}
    \cup {H3_NULL}

(* H3IndexesAreNeighbors(origin, destination) reads no neighbor but those  *)
(* given above.                                                            *)
PairInNeighborTables(origin, destination) ==
    NeighborsByParent(origin, destination) = "KRing"
        => InNeighborTables(origin)

InitNeighbors ==
    /\ h3Set = << >>
    /\ fijk = NoFaceIJK
    /\ gb = NoBoundary
    /\ loop = NoLoop
    /\ res = 0
    /\ compacted = NoResult
    /\ uncompacted = NoResult
    /\ g = NoGeo
    /\ valid = FALSE
    /\ localIjk = ZeroCoordIJK
    /\ word = H3_NULL_WORD
    /\ graph = NoGraph
    /\ ret = NoRet
    /\ \/ /\ pc = "H3IndexesAreNeighbors"
          /\ cell \in NeighborSample
          /\ b \in {x \in NeighborSample :
                       /\ PairInNeighborTables(cell, x)
                       /\ PairInNeighborTables(x, cell)}
          /\ h = H3_NULL
       \/ /\ pc = "GetH3UnidirectionalEdge"
          /\ cell \in {x \in NeighborCells : InNeighborTables(x)}
          /\ b \in {x \in NeighborCells : IsValid(x)}
          /\ h = H3_NULL
       \/ /\ pc = "GetH3IndexesFromUnidirectionalEdge"
          /\ cell = H3_NULL
          /\ b = H3_NULL
          /\ h \in {x \in NeighborSample :
                       H3_GET_MODE(x) # H3_UNIEDGE_MODE}

NeighborsUnchanged ==
    UNCHANGED <<fijk, gb, loop, h3Set, res, compacted, uncompacted, g, cell, valid, b, word, graph,
                localIjk>>

(* H3IndexesAreNeighbors(cell, b) *)
DoH3IndexesAreNeighbors ==
    /\ pc = "H3IndexesAreNeighbors"
    /\ ret' = Only({[NoRet EXCEPT !.ok = r.ok, !.panic = r.panic] :
                       r \in {H3IndexesAreNeighbors(cell, b)}})
    /\ pc' = "H3IndexesAreNeighbors returned"
    /\ UNCHANGED h
    /\ NeighborsUnchanged

(* h = GetH3UnidirectionalEdge(cell, b) *)
DoGetH3UnidirectionalEdge ==
    /\ pc = "GetH3UnidirectionalEdge"
    /\ h' = GetH3UnidirectionalEdge(cell, b)
    /\ pc' = "GetH3IndexesFromUnidirectionalEdge"
    /\ UNCHANGED ret
    /\ NeighborsUnchanged

(* GetH3IndexesFromUnidirectionalEdge(h, &originDestination) *)
DoGetH3IndexesFromUnidirectionalEdge ==
    /\ pc = "GetH3IndexesFromUnidirectionalEdge"
    /\ ret' = [NoRet EXCEPT !.cells = GetH3IndexesFromUnidirectionalEdge(h)]
    /\ pc' = "GetH3IndexesFromUnidirectionalEdge returned"
    /\ UNCHANGED h
    /\ NeighborsUnchanged

NextNeighbors ==
    \/ DoH3IndexesAreNeighbors
    \/ DoGetH3UnidirectionalEdge
    \/ DoGetH3IndexesFromUnidirectionalEdge

SpecNeighbors == InitNeighbors /\ [][NextNeighbors]_vars

C20_NeighborsIsSymmetric ==
    pc = "H3IndexesAreNeighbors returned" =>
        /\ ~ret.panic
        /\ ~H3IndexesAreNeighbors(b, cell).panic
        /\ ret.ok = H3IndexesAreNeighbors(b, cell).ok
        /\ (\/ cell = b
            \/ H3_GET_RESOLUTION(cell) # H3_GET_RESOLUTION(b)
            \/ H3_GET_MODE(cell) # H3_HEXAGON_MODE
            \/ H3_GET_MODE(b) # H3_HEXAGON_MODE) => ~ret.ok

(***************************************************************************)
(* The ijk coordinates alone: Normalize, upAp7 and upAp7r of a triple, and *)
(* upAp7 and upAp7r of the child of a normalized triple in a direction.    *)
(***************************************************************************)
MaxTriple == 3

TripleSample ==
    [i : (0 - MaxTriple)..MaxTriple, j : (0 - MaxTriple)..MaxTriple,
     k : (0 - MaxTriple)..MaxTriple]

InitIjk ==
    /\ h3Set = << >>
    /\ fijk = NoFaceIJK
    /\ gb = NoBoundary
    /\ loop = NoLoop
    /\ compacted = NoResult
    /\ uncompacted = NoResult
    /\ g = NoGeo
    /\ cell = H3_NULL
    /\ h = H3_NULL
    /\ valid = FALSE
    /\ b = H3_NULL
    /\ word = H3_NULL_WORD
    /\ graph = NoGraph
    /\ ret = NoRet
    /\ \/ /\ pc \in {"Normalize", "upAp7", "upAp7r"}
          /\ localIjk \in TripleSample
          /\ res = CENTER_DIGIT
       \/ /\ pc \in {"upAp7 of child", "upAp7r of child"}
          /\ localIjk \in {_ijkNormalize(c) : c \in TripleSample}
          /\ res \in CENTER_DIGIT..(NUM_DIGITS - 1)

IjkUnchanged ==
    UNCHANGED <<fijk, gb, loop, h3Set, res, compacted, uncompacted, g, cell, h, valid, b, word, graph,
                localIjk>>

(* ijk.Normalize() *)
DoNormalize ==
    /\ pc = "Normalize"
    /\ ret' = [NoRet EXCEPT !.ijk = _ijkNormalize(localIjk)]
    /\ pc' = "Normalize returned"
    /\ IjkUnchanged

(* ijk.upAp7() *)
DoUpAp7 ==
    /\ pc = "upAp7"
    /\ ret' = [NoRet EXCEPT !.ijk = _upAp7(localIjk)]
    /\ pc' = "upAp7 returned"
    /\ IjkUnchanged

(* ijk.upAp7r() *)
DoUpAp7r ==
    /\ pc = "upAp7r"
    /\ ret' = [NoRet EXCEPT !.ijk = _upAp7r(localIjk)]
    /\ pc' = "upAp7r returned"
    /\ IjkUnchanged

(* c := localIjk; c.downAp7(); c.neighbor(res); c.upAp7() *)
DoUpAp7OfChild ==
    /\ pc = "upAp7 of child"
    /\ ret' = [NoRet EXCEPT
                  !.ijk = _upAp7(_neighbor(_downAp7(localIjk), res))]
    /\ pc' = "upAp7 of child returned"
    /\ IjkUnchanged

(* c := localIjk; c.downAp7r(); c.neighbor(res); c.upAp7r() *)
DoUpAp7rOfChild ==
    /\ pc = "upAp7r of child"
    /\ ret' = [NoRet EXCEPT
                  !.ijk = _upAp7r(_neighbor(_downAp7r(localIjk), res))]
    /\ pc' = "upAp7r of child returned"
    /\ IjkUnchanged

NextIjk ==
    \/ DoNormalize
    \/ DoUpAp7
    \/ DoUpAp7r
    \/ DoUpAp7OfChild
    \/ DoUpAp7rOfChild

SpecIjk == InitIjk /\ [][NextIjk]_vars

(* Two triples denote one hex: they differ by a multiple of (1, 1, 1). *)
SameHex(c1, c2) == c1.i - c1.k = c2.i - c2.k /\ c1.j - c1.k = c2.j - c2.k

(* C23: upAp7 gives normalize((round((3a - b) / 7), round((a + 2b) / 7),   *)
(* 0)) and upAp7r gives normalize((round((2a + b) / 7), round((3b - a) /   *)
(* 7), 0)) with a = i - k, b = j - k and rounding to the nearest integer;  *)
(* upAp7 of neighbor(downAp7(c), d) and upAp7r of neighbor(downAp7r(c), d) *)
(* are c for a normalized c and a digit d in 0..6.                         *)
C23_UpAp7IsNearestParent ==
    /\ pc = "upAp7 returned" =>
           ret.ijk = _ijkNormalize(
               [i |-> RoundOver(3 * (localIjk.i - localIjk.k)
                                  - (localIjk.j - localIjk.k), 7),
                j |-> RoundOver((localIjk.i - localIjk.k)
                                  + 2 * (localIjk.j - localIjk.k), 7),
                k |-> 0])
    /\ pc = "upAp7r returned" =>
           ret.ijk = _ijkNormalize(
               [i |-> RoundOver(2 * (localIjk.i - localIjk.k)
                                  + (localIjk.j - localIjk.k), 7),
                j |-> RoundOver(3 * (localIjk.j - localIjk.k)
                                  - (localIjk.i - localIjk.k), 7),
                k |-> 0])
    /\ pc \in {"upAp7 of child returned", "upAp7r of child returned"} =>
           ret.ijk = localIjk

(* C25: Normalize leaves the three components not negative and the least   *)
(* of them 0, keeps i - k and j - k, changes nothing in a normalized       *)
(* triple, and two triples denote one hex exactly when it gives them one   *)
(* result.                                                                 *)
C25_NormalizeIsCanonical ==
    pc = "Normalize returned" =>
        /\ ret.ijk.i >= 0 /\ ret.ijk.j >= 0 /\ ret.ijk.k >= 0
        /\ Min2(ret.ijk.i, Min2(ret.ijk.j, ret.ijk.k)) = 0
        /\ SameHex(ret.ijk, localIjk)
        /\ _ijkNormalize(ret.ijk) = ret.ijk
        /\ \A c \in TripleSample :
               SameHex(c, localIjk) <=> _ijkNormalize(c) = ret.ijk

C25_Witness ==
    /\ pc = "Normalize returned"
    /\ localIjk.i < 0 /\ localIjk.j > 0 /\ localIjk.k < localIjk.i
    /\ ret.ijk # localIjk
    /\ ret.ijk.k = 0 /\ ret.ijk.i > 0

(***************************************************************************)
(* The digits of an index: _h3LeadingNonZeroDigit, _h3RotatePent60ccw and  *)
(* _h3RotatePent60cw of an index.                                          *)
(***************************************************************************)
MaxRotateDepth == 3

(* Indexes of a hexagon and of a pentagon base cell, digits 0..6. *)
DigitsSample ==
    {Cell(bc, ds) :
        bc \in {0, 4},
        ds \in UNION {[1..n -> 0..(NUM_DIGITS - 1)] : n \in 0..MaxRotateDepth}}

InitDigits ==
    /\ h3Set = << >>
    /\ fijk = NoFaceIJK
    /\ gb = NoBoundary
    /\ loop = NoLoop
    /\ res = 0
    /\ compacted = NoResult
    /\ uncompacted = NoResult
    /\ g = NoGeo
    /\ h = H3_NULL
    /\ valid = FALSE
    /\ b = H3_NULL
    /\ word = H3_NULL_WORD
    /\ graph = NoGraph
    /\ localIjk = ZeroCoordIJK
    /\ ret = NoRet
    /\ cell \in DigitsSample
    /\ pc \in {"_h3LeadingNonZeroDigit", "_h3RotatePent60ccw",
               "_h3RotatePent60cw"}

DigitsUnchanged ==
    UNCHANGED <<fijk, gb, loop, h3Set, res, compacted, uncompacted, g, cell, h, valid, b, word, graph,
                localIjk>>

(* _h3LeadingNonZeroDigit(cell) *)
DoLeadingNonZeroDigit ==
    /\ pc = "_h3LeadingNonZeroDigit"
    /\ ret' = [NoRet EXCEPT !.n = _h3LeadingNonZeroDigit(cell)]
    /\ pc' = "_h3LeadingNonZeroDigit returned"
    /\ DigitsUnchanged

(* _h3RotatePent60ccw(cell) *)
DoRotatePent60ccw ==
    /\ pc = "_h3RotatePent60ccw"
    /\ ret' = [NoRet EXCEPT !.h = _h3RotatePent60ccw(cell)]
    /\ pc' = "_h3RotatePent60ccw returned"
    /\ DigitsUnchanged

(* _h3RotatePent60cw(cell) *)
DoRotatePent60cw ==
    /\ pc = "_h3RotatePent60cw"
    /\ ret' = [NoRet EXCEPT !.h = _h3RotatePent60cw(cell)]
    /\ pc' = "_h3RotatePent60cw returned"
    /\ DigitsUnchanged

NextDigits ==
    \/ DoLeadingNonZeroDigit
    \/ DoRotatePent60ccw
    \/ DoRotatePent60cw

SpecDigits == InitDigits /\ [][NextDigits]_vars

(* The digit at the least r in 1..resolution whose digit is not 0, and     *)
(* CENTER_DIGIT when there is none.                                        *)
FirstNonZeroDigit(x) ==
    IF \E r \in 1..H3_GET_RESOLUTION(x) : x.digits[r] # CENTER_DIGIT
    THEN x.digits[CHOOSE r \in 1..H3_GET_RESOLUTION(x) :
                      /\ x.digits[r] # CENTER_DIGIT
                      /\ \A q \in 1..(r - 1) : x.digits[q] = CENTER_DIGIT]
    ELSE CENTER_DIGIT

(* C24: for an index of a pentagon base cell whose first digit that is not *)
(* 0 is not K, _h3RotatePent60ccw and _h3RotatePent60cw return an index of *)
(* the same resolution and base cell whose first digit that is not 0 is    *)
(* not K either.                                                           *)
C24_RotatePentKeepsOffK ==
    (/\ pc \in {"_h3RotatePent60ccw returned", "_h3RotatePent60cw returned"}
     /\ _isBaseCellPentagon(H3_GET_BASE_CELL(cell))
     /\ FirstNonZeroDigit(cell) # K_AXES_DIGIT)
        => /\ H3_GET_RESOLUTION(ret.h) = H3_GET_RESOLUTION(cell)
           /\ H3_GET_BASE_CELL(ret.h) = H3_GET_BASE_CELL(cell)
           /\ FirstNonZeroDigit(ret.h) # K_AXES_DIGIT

(* C30: _h3LeadingNonZeroDigit(h) is the digit at the least r in           *)
(* 1..resolution whose digit is not 0, K included, and CENTER_DIGIT only   *)
(* when the digits 1..resolution are all 0.                                *)
C30_LeadingDigitIsFirstNonZero ==
    pc = "_h3LeadingNonZeroDigit returned" =>
        ret.n = FirstNonZeroDigit(cell)


(***************************************************************************)
(* Runs of the setters of the bit fields: one setter is called with a      *)
(* value of its field's range on a word whose bits repeat with a stride,   *)
(* on the word of all zeros, or on H3_INIT; or H3_INIT itself is assigned. *)
(***************************************************************************)
MaxStride == 4

StrideWord(stride, offset) ==
    [n \in BitPositions |-> IF n % stride = offset THEN 1 ELSE 0]

WordSample ==
    {StrideWord(s, o) : s \in 1..MaxStride, o \in 0..(MaxStride - 1)}
      \cup {H3_NULL_WORD, H3_INIT_WORD}

InitWord ==
    /\ h3Set = << >>
    /\ fijk = NoFaceIJK
    /\ gb = NoBoundary
    /\ loop = NoLoop
    /\ res = 0
    /\ compacted = NoResult
    /\ uncompacted = NoResult
    /\ g = NoGeo
    /\ cell = H3_NULL
    /\ h = H3_NULL
    /\ valid = FALSE
    /\ b = H3_NULL
    /\ graph = NoGraph
    /\ localIjk = ZeroCoordIJK
    /\ ret = NoRet
    /\ word \in WordSample
    /\ pc = "word"

WordUnchanged ==
    UNCHANGED <<fijk, gb, loop, h3Set, compacted, uncompacted, g, cell, h, valid, b, graph,
                localIjk>>

(* word.SetHighBit(v) *)
DoSetHighBit ==
    /\ pc = "word"
    /\ \E v \in 0..1 :
          /\ word' = SetHighBit(word, v)
          /\ ret' = [NoRet EXCEPT !.n = v, !.class = "SetHighBit"]
    /\ pc' = "set"
    /\ UNCHANGED res
    /\ WordUnchanged

(* word.SetMode(v) *)
DoSetMode ==
    /\ pc = "word"
    /\ \E v \in 0..15 :
          /\ word' = SetMode(word, v)
          /\ ret' = [NoRet EXCEPT !.n = v, !.class = "SetMode"]
    /\ pc' = "set"
    /\ UNCHANGED res
    /\ WordUnchanged

(* word.SetReservedBits(v) *)
DoSetReservedBits ==
    /\ pc = "word"
    /\ \E v \in 0..7 :
          /\ word' = SetReservedBits(word, v)
          /\ ret' = [NoRet EXCEPT !.n = v, !.class = "SetReservedBits"]
    /\ pc' = "set"
    /\ UNCHANGED res
    /\ WordUnchanged

(* word.SetResolution(v) *)
DoSetResolution ==
    /\ pc = "word"
    /\ \E v \in 0..15 :
          /\ word' = SetResolution(word, v)
          /\ ret' = [NoRet EXCEPT !.n = v, !.class = "SetResolution"]
    /\ pc' = "set"
    /\ UNCHANGED res
    /\ WordUnchanged

(* word.SetBaseCell(v) *)
DoSetBaseCell ==
    /\ pc = "word"
    /\ \E v \in 0..127 :
          /\ word' = SetBaseCell(word, v)
          /\ ret' = [NoRet EXCEPT !.n = v, !.class = "SetBaseCell"]
    /\ pc' = "set"
    /\ UNCHANGED res
    /\ WordUnchanged

(* word.SetIndexDigit(res, v) *)
DoSetIndexDigit ==
    /\ pc = "word"
    /\ \E r \in 1..MAX_H3_RES, v \in 0..7 :
          /\ res' = r
          /\ word' = SetIndexDigit(word, r, v)
          /\ ret' = [NoRet EXCEPT !.n = v, !.class = "SetIndexDigit"]
    /\ pc' = "set"
    /\ WordUnchanged

(* word = H3_INIT *)
DoH3Init ==
    /\ pc = "word"
    /\ word' = H3_INIT_WORD
    /\ ret' = [NoRet EXCEPT !.class = "H3_INIT"]
    /\ pc' = "set"
    /\ UNCHANGED res
    /\ WordUnchanged

NextWord ==
    \/ DoSetHighBit
    \/ DoSetMode
    \/ DoSetReservedBits
    \/ DoSetResolution
    \/ DoSetBaseCell
    \/ DoSetIndexDigit
    \/ DoH3Init

SpecWord == InitWord /\ [][NextWord]_vars

(* C22: setting a field to a value of its range and then getting it        *)
(* returns the value and leaves every other field of the word as it was;   *)
(* H3_INIT has mode 0, resolution 0, base cell 0 and fifteen digits 7.     *)
C22_SetThenGetKeepsOtherFields ==
    [][/\ ret'.class = "SetHighBit"
            => /\ GetHighBit(word') = ret'.n
               /\ Fields(word') = [Fields(word) EXCEPT !.high = ret'.n]
       /\ ret'.class = "SetMode"
            => /\ GetMode(word') = ret'.n
               /\ Fields(word') = [Fields(word) EXCEPT !.mode = ret'.n]
       /\ ret'.class = "SetReservedBits"
            => /\ GetReservedBits(word') = ret'.n
               /\ Fields(word') = [Fields(word) EXCEPT !.reserved = ret'.n]
       /\ ret'.class = "SetResolution"
            => /\ GetResolution(word') = ret'.n
               /\ Fields(word') = [Fields(word) EXCEPT !.res = ret'.n]
       /\ ret'.class = "SetBaseCell"
            => /\ GetBaseCell(word') = ret'.n
               /\ Fields(word') = [Fields(word) EXCEPT !.bc = ret'.n]
       /\ ret'.class = "SetIndexDigit"
            => /\ GetIndexDigit(word', res') = ret'.n
               /\ Fields(word')
                    = [Fields(word) EXCEPT !.digits[res'] = ret'.n]
       /\ ret'.class = "H3_INIT"
            => /\ GetMode(word') = 0
               /\ GetResolution(word') = 0
               /\ GetBaseCell(word') = 0
               /\ \A r \in 1..MAX_H3_RES : GetIndexDigit(word', r) = 7]_vars

(* The digit of resolution 15 was set to 5 in the word of all ones, whose  *)
(* other fields still hold their highest values.                           *)
C22_Witness ==
    /\ pc = "set"
    /\ ret.class = "SetIndexDigit"
    /\ res = MAX_H3_RES
    /\ ret.n = 5
    /\ GetIndexDigit(word, MAX_H3_RES) = 5
    /\ GetMode(word) = 15
    /\ GetBaseCell(word) = 127
    /\ GetIndexDigit(word, 1) = 7


(***************************************************************************)
(* Runs of a vertex graph: initVertexGraph has been called; the caller     *)
(* adds edges, removes nodes it was handed (stored or already removed),    *)
(* and at some time destroys the graph, one pass of the loop of            *)
(* destroyVertexGraph at a step.                                           *)
(***************************************************************************)
MaxBuckets == 2
MaxNodes == 3
MaxLat == 1

VertexSample == {[lat |-> lat, lon |-> -1] : lat \in 0..MaxLat}

GraphResSample == {MAX_H3_RES - 1, MAX_H3_RES}

InitGraph ==
    /\ h3Set = << >>
    /\ fijk = NoFaceIJK
    /\ gb = NoBoundary
    /\ loop = NoLoop
    /\ res = 0
    /\ compacted = NoResult
    /\ uncompacted = NoResult
    /\ g = NoGeo
    /\ cell = H3_NULL
    /\ h = H3_NULL
    /\ valid = FALSE
    /\ b = H3_NULL
    /\ word = H3_NULL_WORD
    /\ localIjk = ZeroCoordIJK
    /\ ret = NoRet
    /\ \E numBuckets \in 1..MaxBuckets, r \in GraphResSample :
          graph = initVertexGraph(numBuckets, r)
    /\ pc = "graph"

GraphUnchanged ==
    UNCHANGED <<fijk, gb, loop, h3Set, res, compacted, uncompacted, g, cell, h, valid, b,
                word, localIjk>>

(* addVertexNode(graph, fromVtx, toVtx) *)
DoAddVertexNode ==
    /\ pc = "graph"
    /\ Len(graph.allocated) < MaxNodes
    /\ \E fromVtx \in VertexSample, toVtx \in VertexSample :
          LET out == addVertexNode(graph, fromVtx, toVtx)
          IN  /\ graph' = out.graph
              /\ ret' = [NoRet EXCEPT !.n = out.node.id,
                                      !.class = "addVertexNode"]
    /\ UNCHANGED pc
    /\ GraphUnchanged

(* removeVertexNode(graph, node) *)
DoRemoveVertexNode ==
    /\ pc = "graph"
    /\ \E node \in Range(graph.allocated) :
          LET out == removeVertexNode(graph, node)
          IN  /\ graph' = out.graph
              /\ ret' = [NoRet EXCEPT !.n = node.id, !.ok = out.failed,
                                      !.class = "removeVertexNode"]
    /\ UNCHANGED pc
    /\ GraphUnchanged

(* One pass of the loop of destroyVertexGraph(graph), and the statement    *)
(* after the loop when firstVertexNode returns nil.                        *)
DoDestroyVertexGraph ==
    /\ pc \in {"graph", "destroyVertexGraph"}
    /\ LET node == firstVertexNode(graph)
       IN  IF node = NilNode
           THEN /\ graph' = [graph EXCEPT !.buckets = << >>]
                /\ pc' = "destroyed"
           ELSE /\ graph' = removeVertexNode(graph, node).graph
                /\ pc' = "destroyVertexGraph"
    /\ ret' = [NoRet EXCEPT !.class = "destroyVertexGraph"]
    /\ GraphUnchanged

NextGraph ==
    \/ DoAddVertexNode
    \/ DoRemoveVertexNode
    \/ DoDestroyVertexGraph

SpecGraph == InitGraph /\ [][NextGraph]_vars

(* A call of destroyVertexGraph that has begun goes on. *)
SpecGraphLive == SpecGraph /\ WF_vars(DoDestroyVertexGraph)

SameEdge(n1, n2) ==
    VertexAlmostEqual(n1.from, n2.from) /\ VertexAlmostEqual(n1.to, n2.to)

(* C28: no bucket chain holds two nodes with the same (from, to) edge.     *)
C28_NoChainHoldsAnEdgeTwice ==
    \A index \in DOMAIN graph.buckets :
        \A p1, p2 \in DOMAIN graph.buckets[index] :
            SameEdge(graph.buckets[index][p1], graph.buckets[index][p2])
                => p1 = p2

(* C29: graph.size is the number of nodes reached from the buckets; a      *)
(* removeVertexNode of a stored node unlinks that node and no other; one   *)
(* of a node not stored leaves the graph as it was and returns true, the   *)
(* failure code; destroyVertexGraph ends with size 0 and no nodes.         *)
C29_SizeCountsStoredNodes ==
    /\ [](graph.size = ChainLengths(graph, Len(graph.buckets)))
    /\ [][ret'.class = "removeVertexNode"
            => LET node == graph.allocated[ret'.n]
               IN  IF node \in StoredNodes(graph)
                   THEN /\ ~ret'.ok
                        /\ StoredNodes(graph') = StoredNodes(graph) \ {node}
                        /\ graph'.size = graph.size - 1
                        /\ \A index \in DOMAIN graph.buckets :
                              graph'.buckets[index]
                                = SelectSeq(graph.buckets[index],
                                            LAMBDA n : n # node)
                   ELSE ret'.ok /\ graph' = graph]_vars
    /\ (pc = "destroyVertexGraph")
          ~> (pc = "destroyed" /\ graph.size = 0 /\ StoredNodes(graph) = {})

(* A node in the middle of a chain of three was removed: the two others    *)
(* are still linked, in their order.                                       *)
C29_Witness ==
    /\ ret.class = "removeVertexNode"
    /\ ~ret.ok
    /\ ret.n = 2
    /\ graph.size = 2
    /\ \E index \in DOMAIN graph.buckets :
          /\ Len(graph.buckets[index]) = 2
          /\ graph.buckets[index][1].id = 1
          /\ graph.buckets[index][2].id = 3


(***************************************************************************)
(* Compact round by round: the call copies the caller's slice into         *)
(* remaining, and every pass of  for len(remaining) > 0  is a step.        *)
(* ret.cells holds remaining (its cells; after the first pass their order  *)
(* is the map's), ret.h the cell that is remaining[0], ret.n the number of *)
(* passes made, compacted.cells the result so far.                         *)
(***************************************************************************)
(* Slices of valid cells of one resolution. *)
RoundInputs ==
    {s \in Inputs : \A i \in DOMAIN s :
        /\ IsValid(s[i])
        /\ H3_GET_RESOLUTION(s[i]) = H3_GET_RESOLUTION(s[1])}

InitRounds ==
    /\ h3Set \in RoundInputs
    /\ fijk = NoFaceIJK
    /\ gb = NoBoundary
    /\ loop = NoLoop
    /\ res = 0
    /\ compacted = NoResult
    /\ uncompacted = NoResult
    /\ g = NoGeo
    /\ cell = H3_NULL
    /\ h = H3_NULL
    /\ valid = FALSE
    /\ b = H3_NULL
    /\ word = H3_NULL_WORD
    /\ graph = NoGraph
    /\ localIjk = ZeroCoordIJK
    /\ ret = NoRet
    /\ pc = "Compact"

RoundsUnchanged ==
    UNCHANGED <<fijk, gb, loop, h3Set, res, uncompacted, g, cell, h, valid, b, word, graph,
                localIjk>>

(* Compact(h3Set) up to the loop: the two early returns, or the copy of    *)
(* h3Set into remaining.                                                   *)
DoCompactEnter ==
    /\ pc = "Compact"
    /\ IF Len(h3Set) = 0
       THEN /\ compacted' = [err |-> ErrNil, cells |-> EmptyBag]
            /\ ret' = ret
            /\ pc' = "returned"
       ELSE IF H3_GET_RESOLUTION(h3Set[1]) = 0
       THEN /\ compacted' = [err |-> ErrNil, cells |-> SeqToBag(h3Set)]
            /\ ret' = ret
            /\ pc' = "returned"
       ELSE /\ compacted' = [err |-> "none", cells |-> EmptyBag]
            /\ ret' = [NoRet EXCEPT !.cells = h3Set, !.h = h3Set[1]]
            /\ pc' = "loop"
    /\ RoundsUnchanged

(* One pass of the loop of Compact over the cells of remaining, first      *)
(* being remaining[0]: whether a count went past 7, the cells appended to  *)
(* result, and the parents moved to remaining.                             *)
CompactPass(first, cells) ==
    Only({Only({Only({
        [duplicate |-> CompactDuplicateSeen(compactable),
         uncompactable |->
             [c \in {x \in BagToSet(remaining) :
                        compactable[H3ToParent(x,
                            H3_GET_RESOLUTION(first) - 1)] < 7}
                 |-> remaining[c]],
         next |-> {p \in parents : compactable[p] = 7}] :
        compactable \in
            {[p \in parents |->
                 CompactCount(remaining, H3_GET_RESOLUTION(first) - 1, p)]}}) :
        parents \in
            {{H3ToParent(c, H3_GET_RESOLUTION(first) - 1) :
                 c \in BagToSet(remaining)}}}) :
        remaining \in {SeqToBag(cells)}})

(* One pass of the loop of Compact, or its end. *)
DoCompactRound ==
    /\ pc = "loop"
    /\ IF Len(ret.cells) = 0
       THEN /\ compacted' = [err |-> ErrNil, cells |-> compacted.cells]
            /\ ret' = ret
            /\ pc' = "returned"
       ELSE IF Len(ret.cells) < 6
       THEN /\ compacted' = [err |-> ErrNil,
                             cells |-> compacted.cells (+) SeqToBag(ret.cells)]
            /\ ret' = ret
            /\ pc' = "returned"
       ELSE \E pass \in {CompactPass(ret.h, ret.cells)} :
               IF pass.duplicate
               THEN /\ compacted' = [err |-> ErrCompactDuplicate,
                                     cells |-> EmptyBag]
                    /\ ret' = ret
                    /\ pc' = "returned"
               ELSE /\ compacted' =
                          [err |-> "none",
                           cells |-> compacted.cells (+) pass.uncompactable]
                    /\ \E first \in (IF pass.next = {} THEN {H3_NULL}
                                     ELSE pass.next) :
                          ret' = [ret EXCEPT
                                    !.cells = BagToSeq(SetToBag(pass.next)),
                                    !.h = first, !.n = @ + 1]
                    /\ pc' = "loop"
    /\ RoundsUnchanged

NextRounds ==
    \/ DoCompactEnter
    \/ DoCompactRound

SpecRounds == InitRounds /\ [][NextRounds]_vars

(* A call of Compact goes on until it returns. *)
SpecRoundsLive == SpecRounds /\ WF_vars(NextRounds)

(* C27: Compact returns; a pass of its loop that does not end the loop     *)
(* carries fewer cells than it was given, all of the resolution one below  *)
(* that of the pass and none below 0; the caller's slice stays as it was.  *)
C27_CompactRoundsGoDown ==
    /\ [][pc = "loop" /\ pc' = "loop"
            => /\ Len(ret'.cells) < Len(ret.cells)
               /\ \A c \in Range(ret'.cells) :
                     /\ H3_GET_RESOLUTION(c) = H3_GET_RESOLUTION(ret.h) - 1
                     /\ H3_GET_RESOLUTION(c) >= 0]_vars
    /\ [][h3Set' = h3Set]_vars
    /\ (pc = "Compact") ~> (pc = "returned")

(***************************************************************************)
(* _adjustPentVertOverage pass by pass.  fijk is the address as adjusted   *)
(* so far, loop.passes the passes made and loop.lastOverage what the last  *)
(* pass returned; localIjk keeps the coordinates passed in.  The callers   *)
(* pass the vertexes of a cell whose center is on the face: the addresses  *)
(* at most MaxReach (5 + 4 + 0, the farthest vertex) past its edge.        *)
(***************************************************************************)
MaxOverageRes == 2
MaxReach == 9
MaxPasses == 8

OverageResSample == {r \in 0..MaxOverageRes : ~isResClassIII(r)}

SubstrateSample(r) ==
    LET n == 3 * maxDimByCIIres(r) + MaxReach
    IN  {c \in {Ijk(x, y, 0) : x, y \in 0..n} \cup
               {Ijk(x, 0, y) : x, y \in 0..n} \cup
               {Ijk(0, x, y) : x, y \in 0..n} : IjkSum(c) <= n}

InitOverage ==
    /\ h3Set = << >>
    /\ res \in OverageResSample
    /\ fijk \in {[face |-> face, coord |-> c] :
                    face \in 0..(NUM_ICOSA_FACES - 1),
                    c \in SubstrateSample(res)}
    /\ localIjk = fijk.coord
    /\ gb = NoBoundary
    /\ loop = NoLoop
    /\ compacted = NoResult
    /\ uncompacted = NoResult
    /\ g = NoGeo
    /\ cell = H3_NULL
    /\ h = H3_NULL
    /\ valid = FALSE
    /\ b = H3_NULL
    /\ word = H3_NULL_WORD
    /\ graph = NoGraph
    /\ ret = NoRet
    /\ pc = "_adjustPentVertOverage"

OverageUnchanged ==
    UNCHANGED <<gb, h3Set, res, compacted, uncompacted, g, cell, h, valid, b,
                word, graph, localIjk, ret>>

(* One pass of  for { overage = _adjustOverageClassII(fijk, res, false,   *)
(* true); if overage != NEW_FACE { break } }.                              *)
DoAdjustPentVertOverage ==
    /\ pc = "_adjustPentVertOverage"
    /\ loop.passes < MaxPasses
    /\ \E adjusted \in {_adjustOverageClassII(fijk, res, FALSE, TRUE)} :
          /\ fijk' = adjusted.fijk
          /\ loop' = [loop EXCEPT !.passes = @ + 1,
                                  !.lastOverage = adjusted.overage]
          /\ pc' = IF adjusted.overage # NEW_FACE THEN "returned" ELSE pc
    /\ OverageUnchanged

NextOverage == DoAdjustPentVertOverage

SpecOverage == InitOverage /\ [][NextOverage]_vars

MaxBoundaryRes == 2

BoundaryResSample == 0..MaxBoundaryRes

(* The coordinates of the center child of resolution r below ijk of        *)
(* resolution from: the walk of _h3ToFaceIjkWithInitializedFijk over       *)
(* digits that are all 0.                                                  *)
RECURSIVE CenterChildCoord(_, _, _)
CenterChildCoord(ijk, from, r) ==
    IF from >= r THEN ijk
    ELSE CenterChildCoord(IF isResClassIII(from + 1) THEN _downAp7(ijk)
                                                     ELSE _downAp7r(ijk),
                          from + 1, r)

(* basecells.go is not part of the given sources: the home FaceIJK of a    *)
(* pentagon base cell is the corner {2, 0, 0} of its face, as for base     *)
(* cell 4 in faceIjkBaseCells.                                             *)
PentagonHomeCoord == Ijk(2, 0, 0)

PentagonCenters(r) ==
    {[face |-> face, coord |-> CenterChildCoord(PentagonHomeCoord, 0, r)] :
        face \in 0..(NUM_ICOSA_FACES - 1)}

(* The coordinates of resolution r in the Class II grid the overage is     *)
(* tested in, and that grid's resolution.                                  *)
ClassIICoord(c, r) == IF isResClassIII(r) THEN _downAp7r(c) ELSE c

ClassIIRes(r) == IF isResClassIII(r) THEN r + 1 ELSE r

IsCorner(c, maxDim) ==
    c \in {Ijk(maxDim, 0, 0), Ijk(0, maxDim, 0), Ijk(0, 0, maxDim)}

(* The centers of the hexagons of a face: the coordinates without overage  *)
(* that are not a corner of the face.                                      *)
HexagonCoords(r) ==
    LET n == maxDimByCIIres(ClassIIRes(r))
    IN  {c \in {Ijk(x, y, 0) : x, y \in 0..n} \cup
               {Ijk(x, 0, y) : x, y \in 0..n} \cup
               {Ijk(0, x, y) : x, y \in 0..n} :
            /\ IjkSum(c) <= n
            /\ IjkSum(ClassIICoord(c, r)) <= n
            /\ ~IsCorner(ClassIICoord(c, r), n)}

HexagonCenters(r) ==
    {[face |-> face, coord |-> c] :
        face \in 0..(NUM_ICOSA_FACES - 1), c \in HexagonCoords(r)}

InitBoundary ==
    /\ h3Set = << >>
    /\ res \in BoundaryResSample
    /\ valid \in BOOLEAN
    /\ fijk \in IF valid THEN PentagonCenters(res) ELSE HexagonCenters(res)
    /\ gb = NoBoundary
    /\ loop = NoLoop
    /\ localIjk = ZeroCoordIJK
    /\ compacted = NoResult
    /\ uncompacted = NoResult
    /\ g = NoGeo
    /\ cell = H3_NULL
    /\ h = H3_NULL
    /\ b = H3_NULL
    /\ word = H3_NULL_WORD
    /\ graph = NoGraph
    /\ ret = NoRet
    /\ pc = "H3ToGeoBoundary"

BoundaryUnchanged ==
    UNCHANGED <<fijk, h3Set, res, compacted, uncompacted, g, cell, h, valid,
                b, word, graph, localIjk, ret>>

(* g.verts[g.numVerts] = ...; g.numVerts++  for each of the kinds, in      *)
(* order: the write past the end of the array panics.                      *)
RECURSIVE Written(_, _)
Written(boundary, kinds) ==
    IF kinds = << >> THEN [gb |-> boundary, panic |-> FALSE]
    ELSE IF boundary.numVerts >= MAX_CELL_BNDRY_VERTS
    THEN [gb |-> boundary, panic |-> TRUE]
    ELSE Written([numVerts |-> boundary.numVerts + 1,
                  verts |-> Append(boundary.verts, Head(kinds))],
                 Tail(kinds))

(* H3ToGeoBoundary up to the loop of the function it calls:  lastFace :=  *)
(* -1  for a hexagon,  var lastFijk FaceIJK  (face 0) for a pentagon.      *)
DoH3ToGeoBoundary ==
    /\ pc = "H3ToGeoBoundary"
    /\ gb' = NoBoundary
    /\ loop' = [NoLoop EXCEPT !.lastFace = IF valid THEN 0 ELSE -1]
    /\ pc' = IF valid THEN "_faceIjkPentToGeoBoundary"
                      ELSE "_faceIjkToGeoBoundary"
    /\ BoundaryUnchanged

(* The loop condition  vert < start+length+additionalIteration  with       *)
(* start 0 and the whole loop asked for.                                   *)
LoopEnds(vert, length) == ~(vert < 0 + length + 1)

(* One pass of the loop of _faceIjkToGeoBoundary.  Whether the crossing    *)
(* found is a vertex of the cell is a comparison of floats: either way.    *)
HexCrossesEdge(r, vert, face, lastFace, lastOverage) ==
    isResClassIII(r) /\ vert > 0 /\ face # lastFace /\ lastOverage # FACE_EDGE

DoHexVertex ==
    /\ pc = "_faceIjkToGeoBoundary"
    /\ \E verts \in {faceIjkToVerts(fijk, res)} :
       \E adjusted \in {_adjustOverageClassII(
                            verts.fijkVerts[(loop.vert % NUM_HEX_VERTS) + 1],
                            verts.res, FALSE, TRUE)} :
       \E isIntersectionAtVertex \in BOOLEAN :
       \E written \in {Written(gb,
              (IF /\ HexCrossesEdge(res, loop.vert, adjusted.fijk.face,
                                    loop.lastFace, loop.lastOverage)
                  /\ ~isIntersectionAtVertex
               THEN <<"crossing">> ELSE << >>) \o
              (IF loop.vert < 0 + NUM_HEX_VERTS
               THEN <<"vertex">> ELSE << >>))} :
          /\ gb' = written.gb
          /\ loop' = [loop EXCEPT !.vert = @ + 1,
                                  !.lastFace = adjusted.fijk.face,
                                  !.lastOverage = adjusted.overage]
          /\ pc' = IF written.panic THEN "H3ToGeoBoundary panicked"
                   ELSE IF LoopEnds(loop.vert + 1, NUM_HEX_VERTS)
                   THEN "H3ToGeoBoundary returned"
                   ELSE pc
    /\ BoundaryUnchanged

(* _adjustPentVertOverage(fijk, res) as a whole: the address and the       *)
(* Overage it ends with, NEW_FACE standing for a loop that goes on after   *)
(* MaxPasses passes.                                                       *)
RECURSIVE AdjustedPentVert(_, _, _)
AdjustedPentVert(vertex, r, passes) ==
    Only({IF adjusted.overage # NEW_FACE \/ passes + 1 >= MaxPasses
          THEN adjusted
          ELSE AdjustedPentVert(adjusted.fijk, r, passes + 1) :
              adjusted \in {_adjustOverageClassII(vertex, r, FALSE, TRUE)}})

_adjustPentVertOverage(vertex, r) == AdjustedPentVert(vertex, r, 0)

PentCrossesEdgeFromStart(r, vert) == isResClassIII(r)

PentCrossesEdge(r, vert) == isResClassIII(r) /\ vert > 0

(* One pass of the loop of _faceIjkPentToGeoBoundary: a vertex whose       *)
(* overage never ends keeps the loop there, and the index -1 that          *)
(* adjacentFaceDir gives for faces that are not adjacent panics in         *)
(* faceNeighbors.                                                          *)
DoPentVertex ==
    /\ pc = "_faceIjkPentToGeoBoundary"
    /\ \E verts \in {_faceIjkPentToVerts(fijk, res)} :
       \E adjusted \in {_adjustPentVertOverage(
                            verts.fijkVerts[(loop.vert % NUM_PENT_VERTS) + 1],
                            verts.res)} :
       \E crosses \in {PentCrossesEdge(res, loop.vert)} :
       \E written \in {Written(gb,
              (IF crosses THEN <<"crossing">> ELSE << >>) \o
              (IF loop.vert < 0 + NUM_PENT_VERTS
               THEN <<"vertex">> ELSE << >>))} :
          IF adjusted.overage = NEW_FACE
          THEN /\ pc' = "_adjustPentVertOverage looping"
               /\ UNCHANGED <<gb, loop>>
          ELSE IF crosses /\ adjacentFaceDir(adjusted.fijk.face,
                                             loop.lastFace) = -1
          THEN /\ pc' = "H3ToGeoBoundary panicked"
               /\ UNCHANGED <<gb, loop>>
          ELSE /\ gb' = written.gb
               /\ loop' = [loop EXCEPT !.vert = @ + 1,
                                       !.lastFace = adjusted.fijk.face,
                                       !.lastOverage = adjusted.overage]
               /\ pc' = IF written.panic THEN "H3ToGeoBoundary panicked"
                        ELSE IF LoopEnds(loop.vert + 1, NUM_PENT_VERTS)
                        THEN "H3ToGeoBoundary returned"
                        ELSE pc
    /\ BoundaryUnchanged

NextBoundary == DoH3ToGeoBoundary \/ DoHexVertex \/ DoPentVertex

SpecBoundary == InitBoundary /\ [][NextBoundary]_vars

RECURSIVE CountOf(_, _)
CountOf(kind, kinds) ==
    IF kinds = << >> THEN 0
    ELSE (IF Head(kinds) = kind THEN 1 ELSE 0) + CountOf(kind, Tail(kinds))

InBoundaryLoop ==
    pc \in {"_faceIjkToGeoBoundary", "_faceIjkPentToGeoBoundary",
            "H3ToGeoBoundary returned"}

(* C21: H3ToGeoBoundary never panics and never stays in the overage loop;  *)
(* it writes at most 10 vertexes, at most 5 of them crossings; when it     *)
(* returns it has written the 6 vertexes of a hexagon or the 5 of a        *)
(* pentagon, no crossing at a Class II resolution, and for a Class III     *)
(* pentagon 10 vertexes, a crossing after every vertex of the cell.        *)
C21_BoundaryVertexCounts ==
    /\ pc \notin {"H3ToGeoBoundary panicked", "_adjustPentVertOverage looping"}
    /\ InBoundaryLoop =>
          /\ gb.numVerts = Len(gb.verts)
          /\ gb.numVerts <= MAX_CELL_BNDRY_VERTS
          /\ CountOf("crossing", gb.verts) <= NUM_PENT_VERTS
    /\ pc = "H3ToGeoBoundary returned" =>
          /\ CountOf("vertex", gb.verts) =
                IF valid THEN NUM_PENT_VERTS ELSE NUM_HEX_VERTS
          /\ ~isResClassIII(res) => CountOf("crossing", gb.verts) = 0
          /\ valid /\ isResClassIII(res) =>
                /\ gb.numVerts = MAX_CELL_BNDRY_VERTS
                /\ \A n \in 1..MAX_CELL_BNDRY_VERTS :
                      gb.verts[n] = IF n % 2 = 1 THEN "vertex" ELSE "crossing"

(* The boundary of a Class III pentagon has been written. *)
C21_Witness ==
    /\ pc = "H3ToGeoBoundary returned"
    /\ valid
    /\ isResClassIII(res)
    /\ gb.numVerts = MAX_CELL_BNDRY_VERTS
    /\ CountOf("crossing", gb.verts) = NUM_PENT_VERTS

====
